---- MODULE Spec2Model ----
(***************************************************************************)
(* ScsProductionData: the position-table generator.                        *)
(*                                                                         *)
(* main builds an AxisPositions object, loads the coil map from the        *)
(* database (CoilMap::PopulateCoilMap), runs the position pass             *)
(* (AxisPositions::CalculateAxisMoves) over the column angles 30, 90, ...  *)
(* and writes the resulting position map to the SCS position table.        *)
(*                                                                         *)
(* Units.  A C++ long is an integer here.  A C++ double that holds an      *)
(* angle is an integer number of hundredths of a degree, and a double that *)
(* holds a distance or position is an integer number of hundredths of a    *)
(* millimetre; Deg and Mm convert a whole number to that scale.            *)
(***************************************************************************)
EXTENDS Integers, Sequences, FiniteSets, TLC

----------------------------------------------------------------------------
(* Scaling and C++ arithmetic *)

Deg(d) == d * 100

Mm(d) == d * 100

\* static_cast<long>(x) of a double: truncation toward zero
TruncToLong(x) == IF x >= 0 THEN x \div 100 ELSE -((-x) \div 100)

\* a conversion to long that leaves out the round()
LongWithoutRound(x) == TruncToLong(x)

\* static_cast<long>(round(x)): round half away from zero
RoundToLong(x) == IF x >= 0 THEN (x + 50) \div 100 ELSE -(((-x) + 50) \div 100)

\* a remainder that leaves the angle as it is
FmodWithoutWrap(x) == x

\* fmod(x, 360.0): the remainder keeps the sign of x
Fmod360(x) == IF x >= 0 THEN x % 36000 ELSE -((-x) % 36000)

\* the C++ % operator on longs: the remainder keeps the sign of a
CRem(a, b) == IF a >= 0 THEN a % b ELSE -((-a) % b)

Abs(x) == IF x >= 0 THEN x ELSE -x

MaxOf(S) == CHOOSE x \in S : \A y \in S : y <= x

MinOf(S) == CHOOSE x \in S : \A y \in S : x <= y

----------------------------------------------------------------------------
(* gaScsDataConstants.hpp *)

RTN_NO_ERROR == 1
RTN_ERROR == -1
RTN_NO_RESULTS == -2

COLUMN_COUNT == 12

A_COLUMN_AZIMUTH == 30
B_COLUMN_AZIMUTH == 90
C_COLUMN_AZIMUTH == 150
D_COLUMN_AZIMUTH == 210
E_COLUMN_AZIMUTH == 270
F_COLUMN_AZIMUTH == 330

\* -20000.0 and -10000.0 mm
INITIAL_NO_POSITION == -2000000
POSITION_NOT_CALCULATED == -1000000

NO_FEATURE == -1
NO_FEATURE_STR == "none"

TURNS_PER_LAYER == 14

\* The number of turns the pass walks over.  The program's coil is
\* (LAYERS_PER_COIL * TURNS_PER_LAYER) - 6 turns long; the model winds a
\* shorter coil.
CoilTurns == 20

COIL_ANGLE_MAX == CoilTurns * 360

\* a column increment of a quarter turn
ColumnIncrementQuarterTurn == 3 * 30

COLUMN_INCREMENT == 60
INITIAL_COLUMN_ANGLE == 30

\* 53 mm
TURN_INDEX_NOMINAL == 5300

\* 735.0, -13.0, -13.0 and 729.0 mm
INITIAL_FULL_RETRACT_POS == 73500
INITIAL_FULL_EXTEND_POS == -1300
RETREATING_FOOT_START_POS == -1300
ADVANCING_FOOT_START_POS == 72900

\* 5, 50.0 and 100.0 degrees
NEW_LAYER_OFFSET == 500
ADV_FOOT_RIA_OFFSET_ANGLE == 5000
RET_FOOT_RIA_OFFSET_ANGLE == 10000

\* -140.0, -130.0 and -80.0 degrees
SOC_POST_LOAD_ANGLE == -14000
SOC_INIT_RETR_ANGLE == -13000
SOC_INIT_ADV_ANGLE == -8000

\* 16.18 and 28.12 degrees
JOGGLE_LENGTH_MIN == 1618
JOGGLE_LENGTH_MAX == 2812

\* 360.0, 0.0 and -360.0 degrees
JOGGLE_RETRACT_ADJ_THRESHOLD == 36000
JOGGLE_FULL_RETRACT_THRESHOLD == 0
JOGGLE_ADV_TO_FIRST_THRESHOLD == -36000

\* 27.06 degrees
TRANS_ARC_DEG == 2706

FC_TRANSITION == "T"
FC_JOGGLE == "J"
FC_LOCAL == "L"

\* enum AxisIndexes: AXIDX_UNKNOWN, then foot A inner (1) .. foot F outer (12),
\* then column A inner (13) .. column F outer (24)
AXIDX_UNKNOWN == 0

VARIABLES
  pc,                 \* where main is
  coilDb,             \* the coil map table of the database (its parameters)
  sinkScs,            \* the SCS position table of the database, a sequence of rows
  dbLog,              \* the database operations AxisPositions has executed, in order
  mapCoil,            \* CoilMap::mapCoil_, rows in ascending angle order
  setJoggleAngles,    \* CoilMap::setJoggleAngles_
  coilStatus,         \* what GenerateCoilMap returned
  scsAxisPositionMap, \* AxisPositions::scsAxisPositionMap_
  scsPosDetail,       \* AxisPositions::scsPosDetail_, the reused scratch record
  arrAdjMark,         \* AxisPositions::arrAdjMark_
  currentAngle,       \* locals of CalculateAxisMoves that live across iterations
  tAccumAdj,
  inTransition,
  hqpNumberPrev,
  layerNumberPrev,
  connectStatus,      \* locals of GeneratePositionTables
  insertStatus,
  rowInsertFailed,    \* whether some InsertIntoScsDb(row) returned an error
  genStatus,          \* what GeneratePositionTables returned
  passes,             \* how many times CalculateAxisMoves has been entered
  firstPassMap,       \* scsAxisPositionMap_ as the first pass left it
  joggleCall,         \* the last CalculateJoggleAdjustmentType call: its angle, what it gave
  popCall,            \* the last PopScsPosDetail call of a caller: angle, mode, status
  coilLog,            \* the commands the last PopulateCoilMap call issued on its connection
  eventLog,           \* the commands GenerateEventMapTable issued on its connection
  eventStatus,        \* what GenerateEventMapTable returned
  args,               \* main: the arguments the loop has not looked at yet
  runPos,             \* main: the position tables are selected
  runEvents,          \* main: the event table is selected
  exitCode            \* what main returned

vars == <<pc, coilDb, sinkScs, dbLog, mapCoil, setJoggleAngles, coilStatus,
          scsAxisPositionMap, scsPosDetail, arrAdjMark, currentAngle, tAccumAdj,
          inTransition, hqpNumberPrev, layerNumberPrev, connectStatus,
          insertStatus, rowInsertFailed, genStatus, passes, firstPassMap,
          joggleCall, popCall, coilLog, eventLog, eventStatus, args, runPos,
          runEvents, exitCode>>

----------------------------------------------------------------------------
(* CoilMap.cpp: lookups *)

\* the row find(angle) lands on; 0 stands for end()
FindIndex(angle) ==
  LET hits == {i \in DOMAIN mapCoil : mapCoil[i].angle = angle}
  IN  IF hits = {} THEN 0 ELSE CHOOSE i \in hits : TRUE

\* an Lb lookup that does not step back from upper_bound(angle)
LbIndexNotSteppedBack(angle) ==
  LET n == Cardinality({i \in DOMAIN mapCoil : mapCoil[i].angle <= angle})
  IN  IF n = Len(mapCoil) THEN 0 ELSE n + 1

\* an Lb lookup that finds no lower bound for the angle of the last row
LbIndexWithoutLastRow(angle) ==
  LET n == Cardinality({i \in DOMAIN mapCoil : mapCoil[i].angle <= angle})
  IN  IF Len(mapCoil) = 0 THEN 0
      ELSE IF mapCoil[Len(mapCoil)].angle = angle THEN 0
      ELSE IF n = 0 THEN 1 ELSE n

\* The row an Lb lookup lands on: upper_bound(angle), stepped back once unless
\* it is begin().  0 stands for end(), which only an empty map gives.
LbIndex(angle) ==
  LET n == Cardinality({i \in DOMAIN mapCoil : mapCoil[i].angle <= angle})
  IN  IF Len(mapCoil) = 0 THEN 0 ELSE IF n = 0 THEN 1 ELSE n

GetAngleLb(angle) ==
  LET i == LbIndex(angle) IN IF i = 0 THEN Deg(NO_FEATURE) ELSE mapCoil[i].angle

GetFcLb(angle) ==
  LET i == LbIndex(angle) IN IF i = 0 THEN NO_FEATURE_STR ELSE mapCoil[i].fc

GetHexQuadNumberLb(angle) ==
  LET i == LbIndex(angle) IN IF i = 0 THEN NO_FEATURE ELSE mapCoil[i].hqp

GetLayerLb(angle) ==
  LET i == LbIndex(angle) IN IF i = 0 THEN NO_FEATURE ELSE mapCoil[i].layer

GetTurnLb(angle) ==
  LET i == LbIndex(angle) IN IF i = 0 THEN NO_FEATURE ELSE mapCoil[i].turn

GetRadiusLb(angle) ==
  LET i == LbIndex(angle) IN IF i = 0 THEN Mm(NO_FEATURE) ELSE mapCoil[i].radius

GetAzimuthLb(angle) ==
  LET i == LbIndex(angle) IN IF i = 0 THEN Deg(NO_FEATURE) ELSE mapCoil[i].azimuth

\* the six properties of a row, the sentinels for end()
Fhltar(i) ==
  IF i = 0
  THEN << NO_FEATURE_STR, NO_FEATURE, NO_FEATURE, NO_FEATURE, Deg(NO_FEATURE), Mm(NO_FEATURE) >>
  ELSE << mapCoil[i].fc, mapCoil[i].hqp, mapCoil[i].layer, mapCoil[i].turn,
          mapCoil[i].azimuth, mapCoil[i].radius >>

GetFhltar(angle) == Fhltar(FindIndex(angle))

GetFhltarLb(angle) == Fhltar(LbIndex(angle))

\* the exact lookups
GetAngle(angle) ==
  LET i == FindIndex(angle) IN IF i = 0 THEN Deg(NO_FEATURE) ELSE mapCoil[i].angle

GetFc(angle) ==
  LET i == FindIndex(angle) IN IF i = 0 THEN NO_FEATURE_STR ELSE mapCoil[i].fc

GetHexQuadNumber(angle) ==
  LET i == FindIndex(angle) IN IF i = 0 THEN NO_FEATURE ELSE mapCoil[i].hqp

GetLayer(angle) ==
  LET i == FindIndex(angle) IN IF i = 0 THEN NO_FEATURE ELSE mapCoil[i].layer

GetTurn(angle) ==
  LET i == FindIndex(angle) IN IF i = 0 THEN NO_FEATURE ELSE mapCoil[i].turn

GetAzimuth(angle) ==
  LET i == FindIndex(angle) IN IF i = 0 THEN Deg(NO_FEATURE) ELSE mapCoil[i].azimuth

GetRadius(angle) ==
  LET i == FindIndex(angle) IN IF i = 0 THEN Mm(NO_FEATURE) ELSE mapCoil[i].radius

\* the joggle at or before the angle
GetJoggleLb(angle) ==
  LET s == {j \in setJoggleAngles : j <= angle}
  IN  IF s = {} THEN Deg(RTN_NO_RESULTS) ELSE MaxOf(s)

\* a next-joggle lookup that gives the joggle at or before the angle
GetJoggleUbLookingBack(angle) ==
  LET s == {j \in setJoggleAngles : j <= angle}
  IN  IF s = {} THEN Deg(RTN_NO_RESULTS) ELSE MaxOf(s)

\* the joggle at or after the angle
GetJoggleUb(angle) ==
  LET s == {j \in setJoggleAngles : j >= angle}
  IN  IF s = {} THEN Deg(RTN_NO_RESULTS) ELSE MinOf(s)

GetJoggleLengthLb(angle) ==
  LET turn == GetTurnLb(angle)
  IN  IF turn = 1 THEN JOGGLE_LENGTH_MIN
      ELSE IF turn = TURNS_PER_LAYER THEN JOGGLE_LENGTH_MAX
      ELSE 0

\* (status, condition) of isEvenLayerLb and isOddLayerLb
isEvenLayerLb(angle) ==
  LET i == LbIndex(angle)
  IN  IF i = 0 THEN [stat |-> FALSE, condition |-> FALSE]
      ELSE [stat |-> TRUE, condition |-> (CRem(mapCoil[i].layer, 2) = 0)]

isOddLayerLb(angle) ==
  LET i == LbIndex(angle)
  IN  IF i = 0 THEN [stat |-> FALSE, condition |-> FALSE]
      ELSE [stat |-> TRUE, condition |-> (CRem(mapCoil[i].layer, 2) = 1)]

\* a boundary lookahead whose first test leaves the window length out
isLastMoveOfLayerIgnoringLength(angle) ==
  LET nextJoggleAngle == GetJoggleUb(angle)
      prevJoggleAngle == GetJoggleLb(angle)
      prevJoggleLength == GetJoggleLengthLb(prevJoggleAngle)
  IN  IF /\ Deg(RTN_NO_RESULTS) # nextJoggleAngle
         /\ nextJoggleAngle < (angle + Deg(COLUMN_INCREMENT))
      THEN [stat |-> TRUE, condition |-> TRUE,
            joggleAngle |-> nextJoggleAngle, isInJoggleWindow |-> FALSE]
      ELSE IF /\ Deg(RTN_NO_RESULTS) # prevJoggleAngle
              /\ (prevJoggleAngle + prevJoggleLength) >= angle
      THEN [stat |-> TRUE, condition |-> TRUE,
            joggleAngle |-> prevJoggleAngle, isInJoggleWindow |-> TRUE]
      ELSE [stat |-> TRUE, condition |-> FALSE,
            joggleAngle |-> Deg(RTN_NO_RESULTS), isInJoggleWindow |-> FALSE]

\* a boundary lookahead that looks at the previous joggle first
isLastMoveOfLayerPreviousFirst(angle) ==
  LET nextJoggleAngle == GetJoggleUb(angle)
      nextJoggleLength == GetJoggleLengthLb(nextJoggleAngle)
      prevJoggleAngle == GetJoggleLb(angle)
      prevJoggleLength == GetJoggleLengthLb(prevJoggleAngle)
  IN  IF /\ Deg(RTN_NO_RESULTS) # prevJoggleAngle
         /\ (prevJoggleAngle + prevJoggleLength) >= angle
      THEN [stat |-> TRUE, condition |-> TRUE,
            joggleAngle |-> prevJoggleAngle, isInJoggleWindow |-> TRUE]
      ELSE IF /\ Deg(RTN_NO_RESULTS) # nextJoggleAngle
              /\ (nextJoggleAngle + nextJoggleLength) < (angle + Deg(COLUMN_INCREMENT))
      THEN [stat |-> TRUE, condition |-> TRUE,
            joggleAngle |-> nextJoggleAngle, isInJoggleWindow |-> FALSE]
      ELSE [stat |-> TRUE, condition |-> FALSE,
            joggleAngle |-> Deg(RTN_NO_RESULTS), isInJoggleWindow |-> FALSE]

\* The boundary lookahead.  joggleAngle and isInJoggleWindow keep the values
\* the caller initialised them to when no boundary is found.
isLastMoveOfLayer(angle) ==
  LET nextJoggleAngle == GetJoggleUb(angle)
      nextJoggleLength == GetJoggleLengthLb(nextJoggleAngle)
      prevJoggleAngle == GetJoggleLb(angle)
      prevJoggleLength == GetJoggleLengthLb(prevJoggleAngle)
  IN  IF /\ Deg(RTN_NO_RESULTS) # nextJoggleAngle
         /\ (nextJoggleAngle + nextJoggleLength) < (angle + Deg(COLUMN_INCREMENT))
      THEN [stat |-> TRUE, condition |-> TRUE,
            joggleAngle |-> nextJoggleAngle, isInJoggleWindow |-> FALSE]
      ELSE IF /\ Deg(RTN_NO_RESULTS) # prevJoggleAngle
              /\ (prevJoggleAngle + prevJoggleLength) >= angle
      THEN [stat |-> TRUE, condition |-> TRUE,
            joggleAngle |-> prevJoggleAngle, isInJoggleWindow |-> TRUE]
      ELSE [stat |-> TRUE, condition |-> FALSE,
            joggleAngle |-> Deg(RTN_NO_RESULTS), isInJoggleWindow |-> FALSE]

isInTransitionLb(angle) ==
  LET turn == GetTurnLb(angle)
      fc == GetFcLb(angle)
      anglePast == angle - GetAngleLb(angle)
  IN  IF NO_FEATURE # turn /\ NO_FEATURE_STR # fc
      THEN [stat |-> TRUE,
            condition |-> (FC_TRANSITION = fc /\ TRANS_ARC_DEG >= anglePast),
            degtoPrevTrans |-> anglePast]
      ELSE [stat |-> FALSE, condition |-> FALSE, degtoPrevTrans |-> 0]

isLastTurnLb(turn, isEvenLayer) ==
  \/ (isEvenLayer /\ 1 = turn)
  \/ (~isEvenLayer /\ TURNS_PER_LAYER = turn)

\* a coil none of whose layers is the last of a pancake
isLastHqLayerNever(layer) == FALSE

isLastHqLayer(layer) ==
  \/ 6 = layer \/ 12 = layer \/ 18 = layer \/ 22 = layer
  \/ 28 = layer \/ 34 = layer \/ 40 <= layer

----------------------------------------------------------------------------
(* AxisPositions.cpp: transition adjustment and column marks *)

\* the nominal radius every modelled coil-map row carries: 1500 mm
ModelRadius == Mm(1500)

\* CalculateTransitionAdjustment for an odd layer at the radius ModelRadius:
\* R2 - R, with R from the arc formula up to the change angle
\* (TRANS_ARC_DEG - atan(TRANS_STRAIGHT_LENGTH / R1), about 18.41 degrees) and
\* from the straight formula after it, in hundredths of a millimetre.  Entry
\* i is for (i - 1) / 2 degrees past the start of the transition; the last
\* entry is for TRANS_ARC_DEG.
TransAdjOddTable ==
  << 0, 3, 11, 24, 44, 68, 98, 133, 174, 220, 272, 329, 391, 459, 532, 611,
     695, 784, 879, 979, 1084, 1195, 1310, 1432, 1558, 1690, 1826, 1968, 2116,
     2268, 2425, 2588, 2756, 2929, 3107, 3289, 3477, 3670, 3856, 4031, 4195,
     4346, 4487, 4616, 4734, 4841, 4936, 5020, 5093, 5155, 5206, 5246, 5275,
     5293, 5300, 5300 >>

\* The same for an even layer: R - R1, with R from the straight formula up to
\* the change angle (atan(TRANS_STRAIGHT_LENGTH / R1), about 8.35 degrees) and
\* from the arc formula after it.
TransAdjEvenTable ==
  << 0, 6, 23, 51, 91, 143, 206, 280, 366, 464, 573, 694, 826, 970, 1126,
     1294, 1474, 1665, 1856, 2041, 2222, 2397, 2568, 2734, 2894, 3050, 3200,
     3346, 3486, 3622, 3752, 3877, 3996, 4111, 4221, 4325, 4424, 4517, 4606,
     4689, 4767, 4840, 4907, 4969, 5026, 5077, 5124, 5164, 5200, 5230, 5255,
     5274, 5288, 5297, 5300, 5300 >>

\* The tables hold the half degrees and TRANS_ARC_DEG itself; the modelled
\* coil maps keep every angle past a transition on that grid.
TransTableIndex(transAngleFromStart) ==
  IF transAngleFromStart = TRANS_ARC_DEG
  THEN Len(TransAdjOddTable)
  ELSE CHOOSE i \in 1..(Len(TransAdjOddTable) - 1) : (i - 1) * 50 = transAngleFromStart

\* transR2_ - transR_ (odd layer) and transR_ - transR1_ (even layer) inside
\* the transition; only the radius ModelRadius is tabulated
TransAdjOdd(radius, transAngleFromStart) ==
  CASE radius = ModelRadius -> TransAdjOddTable[TransTableIndex(transAngleFromStart)]

TransAdjEven(radius, transAngleFromStart) ==
  CASE radius = ModelRadius -> TransAdjEvenTable[TransTableIndex(transAngleFromStart)]

\* a transition window that ends before TRANS_ARC_DEG is reached
CalculateTransitionAdjustmentOpenWindow(angle) ==
  LET odd == isOddLayerLb(angle)
      radius == GetRadiusLb(angle)
      transAngleFromStart == angle - GetAngleLb(angle)
      inRegion == 0 <= transAngleFromStart /\ transAngleFromStart < TRANS_ARC_DEG
  IN  IF odd.stat /\ odd.condition
      THEN IF inRegion THEN TransAdjOdd(radius, transAngleFromStart) ELSE 0
      ELSE IF odd.stat /\ ~odd.condition
      THEN IF inRegion THEN TransAdjEven(radius, transAngleFromStart) ELSE 0
      ELSE 0

CalculateTransitionAdjustment(angle) ==
  LET odd == isOddLayerLb(angle)
      radius == GetRadiusLb(angle)
      transAngleFromStart == angle - GetAngleLb(angle)
      inRegion == 0 <= transAngleFromStart /\ transAngleFromStart <= TRANS_ARC_DEG
  IN  IF odd.stat /\ odd.condition
      THEN IF inRegion THEN TransAdjOdd(radius, transAngleFromStart) ELSE 0
      ELSE IF odd.stat /\ ~odd.condition
      THEN IF inRegion THEN TransAdjEven(radius, transAngleFromStart) ELSE 0
      ELSE 0

\* the column (0..5) of an azimuth in whole degrees, -1 when it is no column
ColumnOfAzimuth(azi) ==
  IF A_COLUMN_AZIMUTH = azi THEN 0
  ELSE IF B_COLUMN_AZIMUTH = azi THEN 1
  ELSE IF C_COLUMN_AZIMUTH = azi THEN 2
  ELSE IF D_COLUMN_AZIMUTH = azi THEN 3
  ELSE IF E_COLUMN_AZIMUTH = azi THEN 4
  ELSE IF F_COLUMN_AZIMUTH = azi THEN 5
  ELSE -1

NoAdjMark == [column \in 0..5 |-> FALSE]

\* a SetTransAdjust that marks no column
SetTransAdjustMarkingNothing(marks, angle) == marks

\* arrAdjMark_ after SetTransAdjust(angle)
SetTransAdjust(marks, angle) ==
  LET column == ColumnOfAzimuth(TruncToLong(Fmod360(angle)))
  IN  IF column = -1 THEN marks ELSE [marks EXCEPT ![column] = TRUE]

\* arrAdjMark_ after ClearAllTransAdjust()
ClearAllTransAdjust(marks) == NoAdjMark

isTransAdjustSet(marks, angle) ==
  LET column == ColumnOfAzimuth(TruncToLong(Fmod360(angle)))
  IN  IF column = -1 THEN FALSE ELSE marks[column]

----------------------------------------------------------------------------
(* AxisPositions.cpp: joggle regions *)

\* the classification with the former rule for the window a turn past a joggle
CalculateJoggleAdjustmentTypeLegacy(angle) ==
  LET nextJoggleAngle == GetJoggleUb(angle)
      degToNextJoggle == nextJoggleAngle - angle
      nextJoggleLength == GetJoggleLengthLb(nextJoggleAngle)
      prevJoggleAngle == GetJoggleLb(angle)
      degToPrevJoggle == prevJoggleAngle - angle
      prevJoggleLength == GetJoggleLengthLb(prevJoggleAngle)
      out(type, jAdj) == [type |-> type, jAdj |-> jAdj,
                          degToNextJoggle |-> degToNextJoggle,
                          degToPrevJoggle |-> degToPrevJoggle]
  IN  IF /\ JOGGLE_RETRACT_ADJ_THRESHOLD < degToNextJoggle
         /\ (JOGGLE_ADV_TO_FIRST_THRESHOLD - prevJoggleLength) > degToPrevJoggle
      THEN out("JA_RET_NOM_ADV_NOM", 0)
      ELSE IF /\ JOGGLE_RETRACT_ADJ_THRESHOLD >= degToNextJoggle
              /\ (JOGGLE_RETRACT_ADJ_THRESHOLD - nextJoggleLength) <= degToNextJoggle
      THEN out("JA_RET_ADJ_ADV_NOM", TURN_INDEX_NOMINAL \div 2)
      ELSE IF /\ JOGGLE_FULL_RETRACT_THRESHOLD >= degToPrevJoggle
              /\ (JOGGLE_FULL_RETRACT_THRESHOLD - prevJoggleLength) <= degToPrevJoggle
      THEN out("JA_RET_FULL_ADV_NOP", 0)
      ELSE IF /\ JOGGLE_ADV_TO_FIRST_THRESHOLD >= degToPrevJoggle
              /\ (JOGGLE_ADV_TO_FIRST_THRESHOLD - prevJoggleLength) <= degToPrevJoggle
      THEN out("JA_RET_NOP_ADV_NOM", 0)
      ELSE out("JA_RET_NOM_ADV_NOM", 0)

\* a classification that looks at the previous joggle before the next one
CalculateJoggleAdjustmentTypePreviousFirst(angle) ==
  LET nextJoggleAngle == GetJoggleUb(angle)
      degToNextJoggle == nextJoggleAngle - angle
      nextJoggleLength == GetJoggleLengthLb(nextJoggleAngle)
      prevJoggleAngle == GetJoggleLb(angle)
      degToPrevJoggle == prevJoggleAngle - angle
      prevJoggleLength == GetJoggleLengthLb(prevJoggleAngle)
      out(type, jAdj) == [type |-> type, jAdj |-> jAdj,
                          degToNextJoggle |-> degToNextJoggle,
                          degToPrevJoggle |-> degToPrevJoggle]
  IN  IF /\ JOGGLE_RETRACT_ADJ_THRESHOLD < degToNextJoggle
         /\ (JOGGLE_ADV_TO_FIRST_THRESHOLD - prevJoggleLength) > degToPrevJoggle
      THEN out("JA_RET_NOM_ADV_NOM", 0)
      ELSE IF /\ JOGGLE_FULL_RETRACT_THRESHOLD >= degToPrevJoggle
              /\ (JOGGLE_FULL_RETRACT_THRESHOLD - prevJoggleLength) <= degToPrevJoggle
      THEN out("JA_RET_FULL_ADV_NOP", 0)
      ELSE IF /\ JOGGLE_ADV_TO_FIRST_THRESHOLD >= degToPrevJoggle
              /\ (JOGGLE_ADV_TO_FIRST_THRESHOLD - prevJoggleLength) <= degToPrevJoggle
      THEN out("JA_RET_NOM_ADV_NOM", 0)
      ELSE IF /\ JOGGLE_RETRACT_ADJ_THRESHOLD >= degToNextJoggle
              /\ (JOGGLE_RETRACT_ADJ_THRESHOLD - nextJoggleLength) <= degToNextJoggle
      THEN out("JA_RET_ADJ_ADV_NOM", TURN_INDEX_NOMINAL \div 2)
      ELSE out("JA_RET_NOM_ADV_NOM", 0)

CalculateJoggleAdjustmentType(angle) ==
  LET nextJoggleAngle == GetJoggleUb(angle)
      degToNextJoggle == nextJoggleAngle - angle
      nextJoggleLength == GetJoggleLengthLb(nextJoggleAngle)
      prevJoggleAngle == GetJoggleLb(angle)
      degToPrevJoggle == prevJoggleAngle - angle
      prevJoggleLength == GetJoggleLengthLb(prevJoggleAngle)
      out(type, jAdj) == [type |-> type, jAdj |-> jAdj,
                          degToNextJoggle |-> degToNextJoggle,
                          degToPrevJoggle |-> degToPrevJoggle]
  IN  IF /\ JOGGLE_RETRACT_ADJ_THRESHOLD < degToNextJoggle
         /\ (JOGGLE_ADV_TO_FIRST_THRESHOLD - prevJoggleLength) > degToPrevJoggle
      THEN out("JA_RET_NOM_ADV_NOM", 0)
      ELSE IF /\ JOGGLE_RETRACT_ADJ_THRESHOLD >= degToNextJoggle
              /\ (JOGGLE_RETRACT_ADJ_THRESHOLD - nextJoggleLength) <= degToNextJoggle
      THEN out("JA_RET_ADJ_ADV_NOM", TURN_INDEX_NOMINAL \div 2)
      ELSE IF /\ JOGGLE_FULL_RETRACT_THRESHOLD >= degToPrevJoggle
              /\ (JOGGLE_FULL_RETRACT_THRESHOLD - prevJoggleLength) <= degToPrevJoggle
      THEN out("JA_RET_FULL_ADV_NOP", 0)
      ELSE IF /\ JOGGLE_ADV_TO_FIRST_THRESHOLD >= degToPrevJoggle
              /\ (JOGGLE_ADV_TO_FIRST_THRESHOLD - prevJoggleLength) <= degToPrevJoggle
      THEN out("JA_RET_NOM_ADV_NOM", 0)
      ELSE out("JA_RET_NOM_ADV_NOM", 0)

\* jAdjType, jAdj and the two distances as CalculateAxisMoves declares them,
\* before the first call has set them
NoJoggleCall ==
  [angle |-> 0,
   out |-> [type |-> "JA_RET_NOM_ADV_NOM", jAdj |-> 0,
            degToNextJoggle |-> 0, degToPrevJoggle |-> 0]]

\* a new-layer angle without the new-layer offset
CalculateNewLayerRiaAngleWithoutOffset(coilAngle, joggleAngle, uninit) ==
  LET even == isEvenLayerLb(joggleAngle)
  IN  [riaAngle |-> coilAngle - ADV_FOOT_RIA_OFFSET_ANGLE,
       isEven |-> IF even.stat THEN even.condition ELSE uninit]

\* (riaAngle, isEven) of CalculateNewLayerRiaAngle.  isEven is read without
\* having been written when the lookup fails: uninit is the value it then has.
CalculateNewLayerRiaAngle(coilAngle, joggleAngle, uninit) ==
  LET even == isEvenLayerLb(joggleAngle)
  IN  [riaAngle |-> coilAngle - ADV_FOOT_RIA_OFFSET_ANGLE + NEW_LAYER_OFFSET,
       isEven |-> IF even.stat THEN even.condition ELSE uninit]

----------------------------------------------------------------------------
(* AxisPositions.cpp: position detail records *)

\* A logic trace is a sequence of entries <<text, a, b>>: the text of one
\* message the code appends and the numbers it prints in it (0 where it
\* prints fewer).
TraceEntry(text, a, b) == <<text, a, b>>

\* a fresh record whose column positions already hold the not calculated
\* sentinel
NewPosDetailColumnsNotCalculated ==
  [footPos |-> [i \in 0..(COLUMN_COUNT - 1) |-> INITIAL_NO_POSITION],
   colPos |-> [i \in 0..(COLUMN_COUNT - 1) |-> POSITION_NOT_CALCULATED],
   selectedAxes |-> [i \in 0..(COLUMN_COUNT * 2) |-> FALSE],
   selDist |-> 0, selIndex |-> AXIDX_UNKNOWN, absAdjust |-> FALSE,
   trace |-> <<>>, isAbsolute |-> FALSE, isInTransition |-> FALSE,
   isInJoggle |-> FALSE, isNewHqp |-> FALSE, isNewLayer |-> FALSE,
   isLastTurn |-> FALSE, isLastLayer |-> FALSE, coilAngle |-> 0,
   hqpAdj |-> 0, layerAdj |-> 0]

\* an SPosDetail whose three vectors have been assign()ed and whose other
\* members are value-initialised
NewPosDetail ==
  [footPos |-> [i \in 0..(COLUMN_COUNT - 1) |-> INITIAL_NO_POSITION],
   colPos |-> [i \in 0..(COLUMN_COUNT - 1) |-> INITIAL_NO_POSITION],
   selectedAxes |-> [i \in 0..(COLUMN_COUNT * 2) |-> FALSE],
   selDist |-> 0, selIndex |-> AXIDX_UNKNOWN, absAdjust |-> FALSE,
   trace |-> <<>>, isAbsolute |-> FALSE, isInTransition |-> FALSE,
   isInJoggle |-> FALSE, isNewHqp |-> FALSE, isNewLayer |-> FALSE,
   isLastTurn |-> FALSE, isLastLayer |-> FALSE, coilAngle |-> 0,
   hqpAdj |-> 0, layerAdj |-> 0]

\* a SetSelectedScsAxis that sets the element of the index and clears no other
SetSelectedScsAxisKeepingOthers(index, distPos, posDetail, mode) ==
  IF 1 <= index /\ (COLUMN_COUNT * 2) >= index
  THEN [posDetail EXCEPT
          !.selDist = distPos,
          !.selIndex = index,
          !.absAdjust = (mode = "IM_ABS_UPDATE_SEL"),
          !.selectedAxes = [axi \in 0..(COLUMN_COUNT * 2) |->
                              IF axi = index THEN TRUE ELSE posDetail.selectedAxes[axi]]]
  ELSE posDetail

\* a selection that leaves the absolute-adjust flag as it was
SetSelectedScsAxisKeepingAdjust(index, distPos, posDetail, mode) ==
  IF 1 <= index /\ (COLUMN_COUNT * 2) >= index
  THEN [posDetail EXCEPT
          !.selDist = distPos,
          !.selIndex = index,
          !.selectedAxes = [axi \in 0..(COLUMN_COUNT * 2) |->
                              IF 1 <= axi /\ axi <= (COLUMN_COUNT * 2) - 1
                              THEN axi = index
                              ELSE posDetail.selectedAxes[axi]]]
  ELSE posDetail

\* SetSelectedScsAxis(long index, ...): the loop runs over axi = 1 .. 23, so
\* element 24 of the selection vector is left as it was
SetSelectedScsAxis(index, distPos, posDetail, mode) ==
  IF 1 <= index /\ (COLUMN_COUNT * 2) >= index
  THEN [posDetail EXCEPT
          !.selDist = distPos,
          !.selIndex = index,
          !.absAdjust = (mode = "IM_ABS_UPDATE_SEL"),
          !.selectedAxes = [axi \in 0..(COLUMN_COUNT * 2) |->
                              IF 1 <= axi /\ axi <= (COLUMN_COUNT * 2) - 1
                              THEN axi = index
                              ELSE posDetail.selectedAxes[axi]]]
  ELSE posDetail

\* a foot vector whose joggle cases do not look at the last layer
AllModeFootPosAnyLayer(column, isEven, mode, fDistPos1, fDistPos2, isInJoggle, isLastLayer, old) ==
  LET hit(i) == IF "IM_ABS_ALL" = mode /\ (i \div 2) = column THEN TURN_INDEX_NOMINAL ELSE 0
      inner(i) ==
        IF ~isInJoggle THEN fDistPos1
        ELSE IF ~isEven THEN fDistPos1 + hit(i)
        ELSE fDistPos1 - hit(i)
      outer(i) ==
        IF ~isInJoggle THEN fDistPos2
        ELSE IF ~isEven THEN fDistPos2 - hit(i)
        ELSE fDistPos2 + hit(i)
  IN  [i \in 0..(COLUMN_COUNT - 1) |-> IF i % 2 = 0 THEN inner(i) ELSE outer(i)]

\* the foot vector of the insert-all modes: inner feet (even elements) from
\* fDistPos1, outer feet (odd elements) from fDistPos2, the pair of the coil
\* angle's column shifted by one index in the joggle cases
AllModeFootPos(column, isEven, mode, fDistPos1, fDistPos2, isInJoggle, isLastLayer, old) ==
  LET hit(i) == IF "IM_ABS_ALL" = mode /\ (i \div 2) = column THEN TURN_INDEX_NOMINAL ELSE 0
      inner(i) ==
        IF ~isInJoggle THEN fDistPos1
        ELSE IF ~isEven THEN fDistPos1 + hit(i)
        ELSE IF ~isLastLayer THEN fDistPos1 - hit(i)
        ELSE fDistPos1
      outer(i) ==
        IF ~isInJoggle THEN fDistPos2
        ELSE IF ~isEven THEN (IF ~isLastLayer THEN fDistPos2 - hit(i) ELSE fDistPos2)
        ELSE fDistPos2 + hit(i)
  IN  [i \in 0..(COLUMN_COUNT - 1) |-> IF i % 2 = 0 THEN inner(i) ELSE outer(i)]

\* (status, posDetail) of PopScsPosDetail
PopScsPosDetail(coilAngle, isEven, role, mode, fDistPos1, fDistPos2, trace, isInTransition, isInJoggle, isNewHqp, isNewLayer, isLastTurn, isLastLayer, hqpAdj, layerAdj, posDetail) ==
  LET azi0 == TruncToLong(Fmod360(coilAngle))
      azi == IF azi0 < 0 THEN azi0 + 360 ELSE azi0
      column == ColumnOfAzimuth(azi)
      attributes(pd, abs) ==
        [pd EXCEPT !.trace = trace, !.isAbsolute = abs,
                   !.isInTransition = isInTransition, !.isInJoggle = isInJoggle,
                   !.isNewHqp = isNewHqp, !.isNewLayer = isNewLayer,
                   !.isLastTurn = isLastTurn, !.isLastLayer = isLastLayer,
                   !.coilAngle = coilAngle, !.hqpAdj = hqpAdj, !.layerAdj = layerAdj]
  IN  IF column = -1
      THEN [status |-> RTN_ERROR, posDetail |-> posDetail]
      ELSE IF mode \in {"IM_ABS_ALL", "IM_REL_ALL"}
      THEN [status |-> RTN_NO_ERROR,
            posDetail |->
              attributes(
                [posDetail EXCEPT
                   !.footPos = AllModeFootPos(column, isEven, mode, fDistPos1, fDistPos2,
                                              isInJoggle, isLastLayer, posDetail.footPos),
                   !.colPos = [i \in 0..(COLUMN_COUNT - 1) |-> POSITION_NOT_CALCULATED],
                   !.selectedAxes = [posDetail.selectedAxes EXCEPT ![0] = FALSE],
                   !.selDist = 0, !.selIndex = AXIDX_UNKNOWN, !.absAdjust = FALSE],
                "IM_ABS_ALL" = mode)]
      ELSE IF mode \in {"IM_REL_SEL", "IM_ABS_SEL", "IM_ABS_UPDATE_SEL"}
      THEN LET innerMoves == \/ (isEven /\ role = "FOOT_ROLE_ADVANCING")
                             \/ (~isEven /\ role = "FOOT_ROLE_RETREATING")
               index == IF innerMoves THEN (column * 2) + 1 ELSE (column * 2) + 2
               sel == SetSelectedScsAxis(index, fDistPos1, posDetail, mode)
           IN  [status |-> RTN_NO_ERROR,
                posDetail |->
                  attributes(
                    [sel EXCEPT !.selectedAxes = [sel.selectedAxes EXCEPT ![0] = TRUE]],
                    mode \in {"IM_ABS_SEL", "IM_ABS_UPDATE_SEL"})]
      ELSE [status |-> RTN_ERROR, posDetail |-> posDetail]

\* popDetailStatus and the arguments of the call before a caller has made one
NoPopCall == [angle |-> 0, mode |-> "", status |-> 0]

\* scsAxisPositionMap_[angle] = posDetail
MapScsAxisMovesLong(map, angle, posDetail) ==
  [k \in (DOMAIN map) \cup {angle} |-> IF k = angle THEN posDetail ELSE map[k]]

\* the double overload converts the angle with static_cast<long>(round(angle))
MapScsAxisMoves(map, angle, posDetail) ==
  MapScsAxisMovesLong(map, RoundToLong(angle), posDetail)

----------------------------------------------------------------------------
(* AxisPositions.cpp: the seed records *)

\* a post-load seed that never adjusts
PostLoadAdjNone(isInJoggleWindow) == 0

\* the value MapPostLoadScsPositions gives both hqpAdj and layerAdj
PostLoadAdj(isInJoggleWindow) == IF ~isInJoggleWindow THEN 1 ELSE 0

\* scsAxisPositionMap_ after MapPostLoadScsPositions(angle, isInJoggleWindow)
MapPostLoadScsPositions(map, angle, isInJoggleWindow) ==
  LET joggle == IF ~isInJoggleWindow THEN GetJoggleUb(angle) ELSE GetJoggleLb(angle)
      newHqpAngle == (joggle + JOGGLE_LENGTH_MIN) - RET_FOOT_RIA_OFFSET_ANGLE
      hqpAdj == PostLoadAdj(isInJoggleWindow)
      layerAdj == PostLoadAdj(isInJoggleWindow)
      trace == IF ~isInJoggleWindow
               THEN << TraceEntry("Post Load Positions. Column Angle: ", TruncToLong(angle), 0) >>
               ELSE << TraceEntry("Post Load Positions (column in joggle window). Column Angle: ",
                                  TruncToLong(angle), 0) >>
      pop == PopScsPosDetail(angle, FALSE, "FOOT_ROLE_ADVANCING", "IM_ABS_ALL",
                             RETREATING_FOOT_START_POS, ADVANCING_FOOT_START_POS,
                             trace, FALSE, isInJoggleWindow, TRUE, FALSE,
                             FALSE, FALSE, hqpAdj, layerAdj, NewPosDetail)
  IN  IF RTN_NO_ERROR = pop.status
      THEN MapScsAxisMoves(map, newHqpAngle, pop.posDetail)
      ELSE map

\* (scsAxisPositionMap_, arrAdjMark_, tAdj) after MapCoilStartScsPositions; the
\* one local record is populated three times, so the two single-axis records
\* keep the foot and column vectors of the seed.  abs is the <cmath> overload
\* for double.
MapCoilStartScsPositions(map, marks, socPostLoadAngle, socInitRetrAngle, socInitAdvAngle, tAdjIn) ==
  LET seed == PopScsPosDetail(Deg(E_COLUMN_AZIMUTH) - Deg(360), FALSE, "FOOT_ROLE_ADVANCING",
                              "IM_ABS_ALL", RETREATING_FOOT_START_POS, ADVANCING_FOOT_START_POS,
                              << TraceEntry("Start of coil positions. Column Angle: ",
                                            TruncToLong((Deg(F_COLUMN_AZIMUTH) - Deg(10)) - Deg(360)), 0) >>,
                              FALSE, FALSE, TRUE, FALSE, FALSE, FALSE, 0, 0, NewPosDetail)
      map1 == IF RTN_NO_ERROR = seed.status
              THEN MapScsAxisMoves(map, socPostLoadAngle, seed.posDetail)
              ELSE map
      trans == isInTransitionLb(Deg(F_COLUMN_AZIMUTH))
      tAdj == CalculateTransitionAdjustment(Deg(F_COLUMN_AZIMUTH))
      retr == PopScsPosDetail(Deg(F_COLUMN_AZIMUTH) - Deg(360), FALSE, "FOOT_ROLE_RETREATING",
                              "IM_ABS_UPDATE_SEL", Abs(tAdj), 0,
                              << TraceEntry("Release lead.  Column Angle: ",
                                            TruncToLong(Deg(F_COLUMN_AZIMUTH) - Deg(360)), 0),
                                 TraceEntry(". F Inner past trans. by degs. Retract mm.",
                                            trans.degtoPrevTrans, tAdj) >>,
                              TRUE, FALSE, FALSE, FALSE, FALSE, FALSE, 0, 0, seed.posDetail)
      map2 == IF RTN_NO_ERROR = retr.status
              THEN MapScsAxisMoves(map1, socInitRetrAngle, retr.posDetail)
              ELSE map1
      adv == PopScsPosDetail(Deg(F_COLUMN_AZIMUTH) - Deg(360), FALSE, "FOOT_ROLE_ADVANCING",
                             "IM_ABS_UPDATE_SEL", (-1) * Abs(tAdj), 0,
                             << TraceEntry("Lead released.  Column Angle: ",
                                           TruncToLong(Deg(F_COLUMN_AZIMUTH) - Deg(360)), 0),
                                TraceEntry(". F Outer past trans. by degs. Advance mm.",
                                           trans.degtoPrevTrans, tAdj) >>,
                             TRUE, FALSE, FALSE, FALSE, FALSE, FALSE, 0, 0, retr.posDetail)
      map3 == IF RTN_NO_ERROR = adv.status
              THEN MapScsAxisMoves(map2, socInitAdvAngle, adv.posDetail)
              ELSE map2
  IN  IF trans.stat /\ trans.condition
      THEN [map |-> map3, marks |-> SetTransAdjust(marks, Deg(F_COLUMN_AZIMUTH)), tAdj |-> tAdj]
      ELSE [map |-> map1, marks |-> marks, tAdj |-> tAdjIn]

\* scsAxisPositionMap_ after MapNewLayerScsPositions
MapNewLayerScsPositions(map, riaAngle, coilAngle, isEven, isLastLayer, isInJoggleWindow, isNewHqp) ==
  LET text == IF isEven /\ ~isInJoggleWindow
                THEN "New Even Layer Start Positions. Column Angle: "
              ELSE IF isEven
                THEN "New Even Layer Start Positions (column in joggle window). Column Angle: "
              ELSE IF ~isInJoggleWindow
                THEN "New Odd Layer Start Positions. Column Angle: "
              ELSE "New Odd Layer Start Positions (column in joggle window). Column Angle: "
      hqpAdj == 0
      layerAdj == IF ~isInJoggleWindow THEN 1 ELSE 0
      fDistPos1 == IF isEven THEN ADVANCING_FOOT_START_POS ELSE RETREATING_FOOT_START_POS
      fDistPos2 == IF isEven THEN RETREATING_FOOT_START_POS ELSE ADVANCING_FOOT_START_POS
      pop == PopScsPosDetail(coilAngle, isEven, "FOOT_ROLE_ADVANCING", "IM_ABS_ALL",
                             fDistPos1, fDistPos2,
                             << TraceEntry(text, TruncToLong(coilAngle), 0) >>,
                             FALSE, isInJoggleWindow, isNewHqp, TRUE,
                             FALSE, isLastLayer, hqpAdj, layerAdj, NewPosDetail)
  IN  IF RTN_NO_ERROR = pop.status
      THEN MapScsAxisMoves(map, riaAngle, pop.posDetail)
      ELSE map

----------------------------------------------------------------------------
(* AxisPositions.cpp: the parts of one iteration of CalculateAxisMoves *)

\* a boundary test that looks at the layer number first
BoundaryKindLayerFirst(hqpNumber, hqpPrev, layerNumber, layerPrev) ==
  IF layerNumber # layerPrev THEN "layer"
  ELSE IF hqpNumber # hqpPrev THEN "hqp"
  ELSE "none"

\* what starts at a boundary the lookahead found: the hex/quad number is
\* tested before the layer number
BoundaryKind(hqpNumber, hqpPrev, layerNumber, layerPrev) ==
  IF hqpNumber # hqpPrev THEN "hqp"
  ELSE IF layerNumber # layerPrev THEN "layer"
  ELSE "none"

\* The lookahead of an iteration that is not the first: the boundary test and
\* at most one seed record.
LayerBoundary(map, currentAng, hqpPrev, layerPrev, uninit) ==
  LET last == isLastMoveOfLayer(Deg(currentAng))
      hqpNumber == GetHexQuadNumberLb(last.joggleAngle)
      layerNumber == GetLayerLb(last.joggleAngle)
      prAie == CalculateNewLayerRiaAngle(Deg(currentAng), last.joggleAngle, uninit)
      errorTrace == << TraceEntry("Error looking for new layer or hqp @ angle: ", currentAng, 0) >>
      kind == BoundaryKind(hqpNumber, hqpPrev, layerNumber, layerPrev)
  IN  IF last.stat /\ last.condition
      THEN IF kind = "hqp"
           THEN [map |-> MapPostLoadScsPositions(map, Deg(currentAng), last.isInJoggleWindow),
                 hqpNumberPrev |-> hqpNumber, layerNumberPrev |-> layerPrev,
                 seed |-> "hqp", trace |-> <<>>]
           ELSE IF kind = "layer"
           THEN [map |-> MapNewLayerScsPositions(map, prAie.riaAngle, Deg(currentAng),
                                                 prAie.isEven, isLastHqLayer(layerNumber),
                                                 last.isInJoggleWindow, FALSE),
                 hqpNumberPrev |-> hqpPrev, layerNumberPrev |-> layerNumber,
                 seed |-> "layer", trace |-> <<>>]
           ELSE [map |-> map, hqpNumberPrev |-> hqpPrev, layerNumberPrev |-> layerPrev,
                 seed |-> "none", trace |-> errorTrace]
      ELSE IF last.stat /\ ~last.condition
      THEN [map |-> map, hqpNumberPrev |-> hqpPrev, layerNumberPrev |-> layerPrev,
            seed |-> "none", trace |-> <<>>]
      ELSE [map |-> map, hqpNumberPrev |-> hqpPrev, layerNumberPrev |-> layerPrev,
            seed |-> "none", trace |-> errorTrace]

\* a joggle branch that clears the accumulator and the marks
JoggleBranchClearing(marks, tAccum, inTrans, trace) ==
  [isJoggleAdj |-> TRUE, tThisAdj |-> 0, tAccumAdj |-> 0, marks |-> ClearAllTransAdjust(marks),
   inTransition |-> inTrans, trace |-> trace]

\* a joggle branch: isJoggleAdj is set, tThisAdj is 0 and nothing else is
\* touched
JoggleBranch(marks, tAccum, inTrans, trace) ==
  [isJoggleAdj |-> TRUE, tThisAdj |-> 0, tAccumAdj |-> tAccum, marks |-> marks,
   inTransition |-> inTrans, trace |-> trace]

\* The joggle-region and transition-window bookkeeping of an iteration.  The
\* joggle branches leave inTransition and tAccumAdj as they were.
TransitionStep(currentAng, j, marks, tAccum, inTrans) ==
  LET trans == isInTransitionLb(Deg(currentAng))
      calc == CalculateTransitionAdjustment(Deg(currentAng)) - tAccum
  IN  IF "JA_RET_ADJ_ADV_NOM" = j.type
      THEN JoggleBranch(marks, tAccum, inTrans,
                        << TraceEntry("Joggle in degs. Ret Ft Nom + Adj mm, Adv Ft Nom, ",
                                      j.degToNextJoggle, j.jAdj) >>)
      ELSE IF "JA_RET_FULL_ADV_NOP" = j.type
      THEN JoggleBranch(marks, tAccum, inTrans,
                        << TraceEntry("Past Joggle by degs. Ret Ft Full Retract, Adv Ft No Move, ",
                                      (-1) * j.degToPrevJoggle, 0) >>)
      ELSE IF "JA_RET_NOP_ADV_NOM" = j.type
      THEN JoggleBranch(marks, tAccum, inTrans,
                        << TraceEntry("Past Joggle by degs. Ret Ft No Move, Adv Ft Nom, ",
                                      (-1) * j.degToPrevJoggle, 0) >>)
      ELSE IF trans.stat /\ trans.condition
      THEN [isJoggleAdj |-> FALSE, tThisAdj |-> calc, tAccumAdj |-> tAccum + calc,
            marks |-> SetTransAdjust(marks, Deg(currentAng)), inTransition |-> TRUE,
            trace |-> << TraceEntry("No Joggle Adj, Past Trans by degs. Adj: mm, ",
                                    trans.degtoPrevTrans, calc) >>]
      ELSE IF trans.stat /\ ~trans.condition /\ isTransAdjustSet(marks, Deg(currentAng))
      THEN [isJoggleAdj |-> FALSE, tThisAdj |-> TURN_INDEX_NOMINAL - tAccum, tAccumAdj |-> 0,
            marks |-> ClearAllTransAdjust(marks), inTransition |-> TRUE,
            trace |-> << TraceEntry("No Joggle Adj, Now off trans. Adj: mm, ",
                                    TURN_INDEX_NOMINAL - tAccum, 0) >>]
      ELSE IF trans.stat /\ ~trans.condition /\ ~isTransAdjustSet(marks, Deg(currentAng))
      THEN [isJoggleAdj |-> FALSE, tThisAdj |-> 0, tAccumAdj |-> tAccum, marks |-> marks,
            inTransition |-> FALSE,
            trace |-> << TraceEntry("No Joggle Adj, No Trans Adj, ", 0, 0) >>]
      ELSE [isJoggleAdj |-> FALSE, tThisAdj |-> 0, tAccumAdj |-> 0, marks |-> marks,
            inTransition |-> FALSE,
            trace |-> << TraceEntry("Error looking up IsInTransitionLb @ angle: ", currentAng, 0) >>]

\* the layer the feet of the column are working on, and the error note of a
\* failed lookup
WorkingLayer(currentAng, jAdjType) ==
  LET layerNumber == GetLayerLb(Deg(currentAng))
  IN  IF NO_FEATURE # layerNumber /\ "JA_RET_FULL_ADV_NOP" = jAdjType
      THEN [layerNumber |-> layerNumber - 1, trace |-> <<>>]
      ELSE IF NO_FEATURE # layerNumber
      THEN [layerNumber |-> layerNumber, trace |-> <<>>]
      ELSE [layerNumber |-> layerNumber,
            trace |-> << TraceEntry("Error looking up layer number @ angle: ", currentAng, 0) >>]

\* the layer and hex/quad adjustments of a foot-move record
FootMoveLayerAdj(isLastTurn, isJoggleAdj) ==
  IF isLastTurn /\ isJoggleAdj THEN -1 ELSE 0

\* a hex/quad adjustment that does not look at the layer
FootMoveHqpAdjAnyLayer(isLastTurn, isLastLayer, isJoggleAdj) ==
  IF isLastTurn /\ isJoggleAdj THEN -1 ELSE 0

FootMoveHqpAdj(isLastTurn, isLastLayer, isJoggleAdj) ==
  IF isLastTurn /\ isLastLayer /\ isJoggleAdj THEN -1 ELSE 0

\* an advancing foot that keeps the accumulator and the marks when it leaves
\* the layer
AdvancingMoveKeepingMarks(jAdjType, isLastTurn, tThisAdj) ==
  IF \/ (~isLastTurn /\ "JA_RET_NOM_ADV_NOM" = jAdjType)
     \/ "JA_RET_ADJ_ADV_NOM" = jAdjType
     \/ "JA_RET_NOP_ADV_NOM" = jAdjType
  THEN [dist |-> (-1) * (TURN_INDEX_NOMINAL + tThisAdj), mode |-> "IM_ABS_UPDATE_SEL",
        leaving |-> FALSE, trace |-> <<>>]
  ELSE IF "JA_RET_FULL_ADV_NOP" = jAdjType
  THEN [dist |-> 0, mode |-> "IM_ABS_UPDATE_SEL", leaving |-> FALSE, trace |-> <<>>]
  ELSE [dist |-> INITIAL_FULL_EXTEND_POS, mode |-> "IM_ABS_SEL", leaving |-> FALSE, trace |-> <<>>]

\* distance and insert mode of the advancing foot; leaving says the move ends
\* the layer, which clears the accumulator and the column marks
AdvancingMove(jAdjType, isLastTurn, tThisAdj) ==
  IF \/ (~isLastTurn /\ "JA_RET_NOM_ADV_NOM" = jAdjType)
     \/ "JA_RET_ADJ_ADV_NOM" = jAdjType
     \/ "JA_RET_NOP_ADV_NOM" = jAdjType
  THEN [dist |-> (-1) * (TURN_INDEX_NOMINAL + tThisAdj), mode |-> "IM_ABS_UPDATE_SEL",
        leaving |-> FALSE, trace |-> <<>>]
  ELSE IF "JA_RET_FULL_ADV_NOP" = jAdjType
  THEN [dist |-> 0, mode |-> "IM_ABS_UPDATE_SEL", leaving |-> FALSE, trace |-> <<>>]
  ELSE IF isLastTurn
  THEN [dist |-> INITIAL_FULL_EXTEND_POS, mode |-> "IM_ABS_SEL", leaving |-> TRUE, trace |-> <<>>]
  ELSE [dist |-> 0, mode |-> "IM_ABS_UPDATE_SEL", leaving |-> FALSE,
        trace |-> << TraceEntry("Logic error determining advancing foot move.", 0, 0) >>]

\* a retreating foot that moves half an index where no joggle is near
RetreatingMoveHalfIndex(jAdjType, isLastTurn, tThisAdj, jAdj) ==
  IF "JA_RET_ADJ_ADV_NOM" = jAdjType
  THEN [dist |-> TURN_INDEX_NOMINAL + tThisAdj + jAdj, mode |-> "IM_ABS_UPDATE_SEL", trace |-> <<>>]
  ELSE IF "JA_RET_FULL_ADV_NOP" = jAdjType
  THEN [dist |-> INITIAL_FULL_RETRACT_POS, mode |-> "IM_ABS_SEL", trace |-> <<>>]
  ELSE IF "JA_RET_NOP_ADV_NOM" = jAdjType
  THEN [dist |-> 0, mode |-> "IM_ABS_UPDATE_SEL", trace |-> <<>>]
  ELSE IF ~isLastTurn /\ "JA_RET_NOM_ADV_NOM" = jAdjType
  THEN [dist |-> (TURN_INDEX_NOMINAL \div 2) + tThisAdj, mode |-> "IM_ABS_UPDATE_SEL",
        trace |-> <<>>]
  ELSE IF isLastTurn
  THEN [dist |-> INITIAL_FULL_RETRACT_POS, mode |-> "IM_ABS_SEL", trace |-> <<>>]
  ELSE [dist |-> 0, mode |-> "IM_ABS_UPDATE_SEL",
        trace |-> << TraceEntry("Logic error determining retreating foot move.", 0, 0) >>]

\* a retreating foot that leaves the joggle adjustment out
RetreatingMoveWithoutJoggleAdj(jAdjType, isLastTurn, tThisAdj, jAdj) ==
  IF "JA_RET_FULL_ADV_NOP" = jAdjType \/ (isLastTurn /\ "JA_RET_ADJ_ADV_NOM" # jAdjType)
  THEN [dist |-> INITIAL_FULL_RETRACT_POS, mode |-> "IM_ABS_SEL", trace |-> <<>>]
  ELSE [dist |-> TURN_INDEX_NOMINAL + tThisAdj, mode |-> "IM_ABS_UPDATE_SEL", trace |-> <<>>]

\* distance and insert mode of the retreating foot
RetreatingMove(jAdjType, isLastTurn, tThisAdj, jAdj) ==
  IF "JA_RET_ADJ_ADV_NOM" = jAdjType
  THEN [dist |-> TURN_INDEX_NOMINAL + tThisAdj + jAdj, mode |-> "IM_ABS_UPDATE_SEL", trace |-> <<>>]
  ELSE IF "JA_RET_FULL_ADV_NOP" = jAdjType
  THEN [dist |-> INITIAL_FULL_RETRACT_POS, mode |-> "IM_ABS_SEL", trace |-> <<>>]
  ELSE IF "JA_RET_NOP_ADV_NOM" = jAdjType
  THEN [dist |-> 0, mode |-> "IM_ABS_UPDATE_SEL", trace |-> <<>>]
  ELSE IF ~isLastTurn /\ "JA_RET_NOM_ADV_NOM" = jAdjType
  THEN [dist |-> TURN_INDEX_NOMINAL + tThisAdj, mode |-> "IM_ABS_UPDATE_SEL", trace |-> <<>>]
  ELSE IF isLastTurn
  THEN [dist |-> INITIAL_FULL_RETRACT_POS, mode |-> "IM_ABS_SEL", trace |-> <<>>]
  ELSE [dist |-> 0, mode |-> "IM_ABS_UPDATE_SEL",
        trace |-> << TraceEntry("Logic error determining retreating foot move.", 0, 0) >>]

\* the move summary appended to the trace of the scratch record after it has
\* been populated
MoveSummary(posDetail, text, turn, mode, sign) ==
  [posDetail EXCEPT !.trace =
     @ \o << TraceEntry(text, turn, 0),
             TraceEntry(IF "IM_ABS_SEL" = mode THEN "(abs) to mm." ELSE "(rel) mm.",
                        posDetail.selIndex, sign * posDetail.selDist) >>]

----------------------------------------------------------------------------
(* The coil map table of the database *)

\* A coil is described by a record p.  Its layers are p.turns turns long:
\* every layer starts at a multiple of p.turns turns, the first with the
\* local zero at angle 0 and the others with a joggle row p.jAz past the
\* start; the second and the third turn of a layer start at transition rows.
\* Odd layers wind turns 1, 13, 14 and even layers turns 14, 2, 1, so the
\* first and the last turn of a layer are the turns the program treats as
\* such.  The transition rows lie p.tAz past the start of a turn in layer 1
\* and p.tDrift further in each following layer, and the row of the third
\* turn lies p.tTurn further than the row of the second.  p.hqpAt is the layer that
\* starts hex/quad pancake 2 (0: the coil is one pancake).
LayerStart(p, l) == (l - 1) * Deg(p.turns * 360)

TurnLabel(l, k) ==
  IF l % 2 = 1 THEN << 1, TURNS_PER_LAYER - 1, TURNS_PER_LAYER >>[k]
  ELSE << TURNS_PER_LAYER, 2, 1 >>[k]

HqpOfLayer(p, l) == IF p.hqpAt # 0 /\ l >= p.hqpAt THEN 2 ELSE 1

TransAzimuth(p, l) == p.tAz + ((l - 1) * p.tDrift)

CoilRow(p, angle, fc, l, k) ==
  [angle |-> angle, fc |-> fc, hqp |-> HqpOfLayer(p, l), layer |-> l,
   turn |-> TurnLabel(l, k), azimuth |-> angle % Deg(360), radius |-> ModelRadius]

LayerRows(p, l) ==
  << IF l = 1 THEN CoilRow(p, 0, FC_LOCAL, l, 1)
     ELSE CoilRow(p, LayerStart(p, l) + p.jAz, FC_JOGGLE, l, 1),
     CoilRow(p, LayerStart(p, l) + TransAzimuth(p, l), FC_TRANSITION, l, 2),
     CoilRow(p, LayerStart(p, l) + Deg(360) + TransAzimuth(p, l) + p.tTurn, FC_TRANSITION, l, 3) >>

RECURSIVE CoilRowsUpTo(_, _)
CoilRowsUpTo(p, l) == IF l = 0 THEN <<>> ELSE CoilRowsUpTo(p, l - 1) \o LayerRows(p, l)

\* what the coil map query returns, in ascending angle order
CoilRows(p) == CoilRowsUpTo(p, p.layers)

\* what the joggle angle query returns
JoggleAngles(p) == {LayerStart(p, l) + p.jAz : l \in 2..p.layers}

\* The coils the model is run on:
\*  - column F sits on the end of the first transition arc and the joggles
\*    fall between two columns, 33.82 degrees past the first of them;
\*  - the transitions drift forward by a column over the coil and the joggles
\*    fall inside a column's joggle window;
\*  - the joggles lie 16 degrees before a column;
\*  - a coil of one pancake;
\*  - a coil of one pancake and two layers whose transitions lie on column D,
\*    away from column F, so that its last row is at a column angle.
CoilInputs ==
  { [layers |-> 7, turns |-> 3, tAz |-> 30294, tDrift |-> 0, tTurn |-> 0, jAz |-> 382, hqpAt |-> 7],
    [layers |-> 7, turns |-> 3, tAz |-> 31000, tDrift |-> 1000, tTurn |-> 0, jAz |-> 2032, hqpAt |-> 7],
    [layers |-> 7, turns |-> 3, tAz |-> 31000, tDrift |-> 0, tTurn |-> 0, jAz |-> 1400, hqpAt |-> 7],
    [layers |-> 7, turns |-> 3, tAz |-> 32950, tDrift |-> 0, tTurn |-> 0, jAz |-> 0, hqpAt |-> 0],
    [layers |-> 2, turns |-> 3, tAz |-> 21000, tDrift |-> 0, tTurn |-> 0, jAz |-> 2032, hqpAt |-> 0] }

\* Three coils for the transition windows; the transitions of the first two
\* change column within a layer:
\*  - 5 degrees before column A on the second turn of a layer and 5 degrees
\*    before column B on the third, so that column A is in the transition
\*    window on one turn and out of every window on the next;
\*  - 5 degrees before column B on the second turn and 5 degrees before
\*    column A on the third, so that column A comes into a window while
\*    column B has not left its own;
\*  - 5 degrees before column A on both turns, with the joggle of the next
\*    layer a little less than a turn ahead of column A on the third.
WindowCoils ==
  { [layers |-> 7, turns |-> 3, tAz |-> 2500, tDrift |-> 0, tTurn |-> 6000, jAz |-> 382,
     hqpAt |-> 7],
    [layers |-> 7, turns |-> 3, tAz |-> 8500, tDrift |-> 0, tTurn |-> -6000, jAz |-> 382,
     hqpAt |-> 7],
    [layers |-> 7, turns |-> 3, tAz |-> 38500, tDrift |-> 0, tTurn |-> 0, jAz |-> 2032,
     hqpAt |-> 7] }

----------------------------------------------------------------------------
(* The SCS position table of the database *)

\* the move summary of a logic trace: the trace from the character after the
\* start of the move summary token, the whole trace when there is no token
MoveSummaryOf(trace) ==
  LET isToken(e) == e[1] \in {"*MS: Adv Ft To Trn: ", "*MS: Ret Ft To Trn: "}
      hits == {i \in DOMAIN trace : isToken(trace[i])}
      msPos == MinOf(hits)
  IN  IF hits = {} THEN trace
      ELSE [i \in 1..(Len(trace) - msPos + 1) |->
              IF i = 1
              THEN TraceEntry(IF trace[msPos][1] = "*MS: Adv Ft To Trn: "
                              THEN "MS: Adv Ft To Trn: " ELSE "MS: Ret Ft To Trn: ",
                              trace[msPos][2], trace[msPos][3])
              ELSE trace[msPos + i - 1]]

\* The row InsertIntoScsDb(riaAngle, posDetail) sends: the stored procedure
\* and its parameters.  A parameter the procedure does not take is left
\* FALSE, 0 or empty.
ScsRow(riaAngle, posDetail) ==
  LET common == [riaAngle |-> riaAngle, coilAngle |-> posDetail.coilAngle,
                 trace |-> posDetail.trace, actionDesc |-> MoveSummaryOf(posDetail.trace),
                 isInTransition |-> posDetail.isInTransition,
                 isInJoggle |-> posDetail.isInJoggle,
                 isNewHqp |-> posDetail.isNewHqp, isNewLayer |-> posDetail.isNewLayer,
                 isLastTurn |-> posDetail.isLastTurn, isLastLayer |-> posDetail.isLastLayer,
                 hqpAdj |-> posDetail.hqpAdj, layerAdj |-> posDetail.layerAdj]
      selection == [axi \in 1..(COLUMN_COUNT * 2) |-> posDetail.selectedAxes[axi]]
  IN  IF posDetail.selectedAxes[0]
      THEN IF posDetail.absAdjust
           THEN [proc |-> "SPNAME_INSERT_SEL_ADJ_ABS_SCS_POS", common |-> common,
                 isAbsolute |-> FALSE, dist |-> posDetail.selDist,
                 selection |-> selection, footPos |-> <<>>, colPos |-> <<>>]
           ELSE [proc |-> "SPNAME_INSERT_SEL_SCS_POS", common |-> common,
                 isAbsolute |-> posDetail.isAbsolute, dist |-> posDetail.selDist,
                 selection |-> selection, footPos |-> <<>>, colPos |-> <<>>]
      ELSE [proc |-> "SPNAME_INSERT_ALL_SCS_POS", common |-> common,
            isAbsolute |-> posDetail.isAbsolute, dist |-> 0,
            selection |-> <<>>, footPos |-> posDetail.footPos, colPos |-> posDetail.colPos]

\* a row some earlier run left in the table
StaleRow == ScsRow(-1, NewPosDetail)

\* the keys of a position map in ascending order
RECURSIVE KeysAscending(_)
KeysAscending(keys) ==
  IF keys = {} THEN <<>>
  ELSE LET lo == MinOf(keys)
           hi == MaxOf(keys)
           mid == (lo + hi) \div 2
       IN  IF lo = hi THEN << lo >>
           ELSE KeysAscending({k \in keys : k <= mid}) \o KeysAscending({k \in keys : k > mid})

\* the attempts of the bulk insert, one per key in ascending order, each with
\* whether the row's insert succeeded
InsertAttempts(map, failed) ==
  LET order == KeysAscending(DOMAIN map)
  IN  [i \in DOMAIN order |-> << "insert", order[i], IF order[i] \in failed THEN 0 ELSE 1 >>]

\* the rows the bulk insert adds to the table
InsertedRows(map, failed) ==
  LET order == KeysAscending((DOMAIN map) \ failed)
  IN  [i \in DOMAIN order |-> ScsRow(order[i], map[order[i]])]

----------------------------------------------------------------------------
(* Scoped use of the database connection *)

\* The three table functions are a run of guarded commands: each is attempted
\* only when the status variables it tests all hold RTN_NO_ERROR, and its
\* return value goes to the status variable it is assigned to ("dropped" when
\* the code ignores it).  kind "call" is a step that issues nothing on the
\* object's own connection.
NoStatus ==
  [connectStatus |-> 0, queryStatus |-> 0, opStatus |-> 0,
   disconnectStatus |-> 0, insertStatus |-> 0, dropped |-> 0]

\* CoilMap::PopulateCoilMap
PopulateCoilMapCommands ==
  << [name |-> "DbConnect", kind |-> "connect", sets |-> "connectStatus", needs |-> {}],
     [name |-> "QueryDb(SPNAME_SELECT_COIL_MAP)", kind |-> "query", sets |-> "queryStatus",
      needs |-> {"connectStatus"}],
     [name |-> "MapFeature", kind |-> "fetch", sets |-> "opStatus",
      needs |-> {"connectStatus", "queryStatus"}],
     [name |-> "QueryDb(SPNAME_SELECT_CMOLT14FCT)", kind |-> "query", sets |-> "queryStatus",
      needs |-> {"connectStatus", "queryStatus", "opStatus"}],
     [name |-> "MapCmOlT14FcT", kind |-> "fetch", sets |-> "opStatus",
      needs |-> {"connectStatus", "queryStatus", "opStatus"}],
     [name |-> "QueryDb(SPNAME_SELECT_JOGGLE_ANGLES)", kind |-> "query", sets |-> "queryStatus",
      needs |-> {"connectStatus", "queryStatus", "opStatus"}],
     [name |-> "PopulateJoggleAngleSet", kind |-> "fetch", sets |-> "opStatus",
      needs |-> {"connectStatus", "queryStatus", "opStatus"}],
     [name |-> "DbDisconnect", kind |-> "disconnect", sets |-> "disconnectStatus",
      needs |-> {"connectStatus"}] >>

\* EventMap::GenerateEventMapTable; MapEventInstances, between the last fetch
\* and the delete, issues no command
GenerateEventMapTableCommands ==
  << [name |-> "DbConnect", kind |-> "connect", sets |-> "connectStatus", needs |-> {}],
     [name |-> "coilMap_.PopulateCoilMap", kind |-> "call", sets |-> "opStatus",
      needs |-> {"connectStatus"}],
     [name |-> "QueryDb(SPNAME_SELECT_HQPSTART_ANGLES)", kind |-> "query", sets |-> "queryStatus",
      needs |-> {"connectStatus", "opStatus"}],
     [name |-> "PopulateHqpStartSet", kind |-> "fetch", sets |-> "opStatus",
      needs |-> {"connectStatus", "opStatus", "queryStatus"}],
     [name |-> "QueryDb(SPNAME_SELECT_LAYERSTART_ANGLES)", kind |-> "query", sets |-> "queryStatus",
      needs |-> {"connectStatus", "opStatus", "queryStatus"}],
     [name |-> "PopulateLayerStartSet", kind |-> "fetch", sets |-> "opStatus",
      needs |-> {"connectStatus", "opStatus", "queryStatus"}],
     [name |-> "DeleteAllUndoneEvents", kind |-> "delete", sets |-> "dropped",
      needs |-> {"connectStatus", "opStatus"}],
     [name |-> "InsertIntoDb(SPNAME_INSERT_EVENTLIST)", kind |-> "insert", sets |-> "opStatus",
      needs |-> {"connectStatus", "opStatus"}],
     [name |-> "DbDisconnect", kind |-> "disconnect", sets |-> "disconnectStatus",
      needs |-> {"connectStatus"}] >>

CommandNames(cmds) == {cmds[i].name : i \in DOMAIN cmds}

\* a variant of the guards that attempts a command whatever the statuses are
IsAttemptedUnguarded(cmd, status) == TRUE

\* the if in front of a command: every status it tests is RTN_NO_ERROR
IsAttempted(cmd, status) == \A n \in cmd.needs : status[n] = RTN_NO_ERROR

\* one guarded command: skipped, or attempted, logged and its status kept
RunCommand(cmd, st, fails) ==
  IF IsAttempted(cmd, st.status)
  THEN [status |-> [st.status EXCEPT ![cmd.sets] =
                      IF cmd.name \in fails THEN RTN_ERROR ELSE RTN_NO_ERROR],
        log |-> IF cmd.kind = "call" THEN st.log
                ELSE Append(st.log, << cmd.kind, 0, IF cmd.name \in fails THEN 0 ELSE 1 >>)]
  ELSE st

RECURSIVE RunCommandsFrom(_, _, _, _)
RunCommandsFrom(cmds, i, st, fails) ==
  IF i > Len(cmds) THEN st
  ELSE RunCommandsFrom(cmds, i + 1, RunCommand(cmds[i], st, fails), fails)

\* the commands of a call in which the commands named in fails would fail
RunCommands(cmds, fails) ==
  RunCommandsFrom(cmds, 1, [status |-> NoStatus, log |-> <<>>], fails)

\* PopulateCoilMap's and GenerateEventMapTable's closing test of the four statuses
TableStatus(status) ==
  IF /\ RTN_NO_ERROR = status.connectStatus
     /\ RTN_NO_ERROR = status.queryStatus
     /\ RTN_NO_ERROR = status.opStatus
     /\ RTN_NO_ERROR = status.disconnectStatus
  THEN RTN_NO_ERROR ELSE RTN_ERROR

\* the failing command behind each outcome of GenerateCoilMap
OutcomeFails(outcome) ==
  CASE outcome = "ok" -> {}
    [] outcome = "connectFail" -> {"DbConnect"}
    [] outcome = "jogglesFail" -> {"PopulateJoggleAngleSet"}
    [] outcome = "disconnectFail" -> {"DbDisconnect"}

----------------------------------------------------------------------------
(* The program *)

\* main has not returned
NotExited == -1

\* main at the place at, with the arguments arguments still to look at and
\* the two selections as given; no object has been used yet
InitAt(at, arguments, pos, events) ==
  /\ pc = at
  /\ coilDb \in CoilInputs \cup WindowCoils
  /\ sinkScs \in {<<>>, << StaleRow >>}
  /\ dbLog = <<>>
  /\ mapCoil = <<>>
  /\ setJoggleAngles = {}
  /\ coilStatus = 0
  /\ scsAxisPositionMap = <<>>
  /\ scsPosDetail = NewPosDetail
  /\ arrAdjMark = NoAdjMark
  /\ currentAngle = INITIAL_COLUMN_ANGLE
  /\ tAccumAdj = 0
  /\ inTransition = FALSE
  /\ hqpNumberPrev = 0
  /\ layerNumberPrev = 0
  /\ connectStatus = 0
  /\ insertStatus = 0
  /\ rowInsertFailed = FALSE
  /\ genStatus = 0
  /\ passes = 0
  /\ firstPassMap = <<>>
  /\ joggleCall = NoJoggleCall
  /\ popCall = NoPopCall
  /\ coilLog = <<>>
  /\ eventLog = <<>>
  /\ eventStatus = 0
  /\ args = arguments
  /\ runPos = pos
  /\ runEvents = events
  /\ exitCode = NotExited

\* main has found the position tables selected and the event table not
Init ==
  /\ InitAt("main", <<>>, TRUE, FALSE)
  /\ coilDb \in CoilInputs

\* the same, on the coil whose transitions move from column to column
InitWindows ==
  /\ InitAt("main", <<>>, TRUE, FALSE)
  /\ coilDb \in WindowCoils

\* main: axPos.GenerateCoilMap(), that is CoilMap::PopulateCoilMap.  The load
\* stops at the first failing step; what the earlier steps loaded stays.
GenerateCoilMap ==
  /\ pc = "main"
  /\ runPos
  /\ \E outcome \in {"ok", "connectFail", "jogglesFail", "disconnectFail"} :
       /\ mapCoil' = IF outcome = "connectFail" THEN <<>> ELSE CoilRows(coilDb)
       /\ setJoggleAngles' = IF outcome \in {"connectFail", "jogglesFail"}
                             THEN {} ELSE JoggleAngles(coilDb)
       /\ coilStatus' = IF outcome = "ok" THEN RTN_NO_ERROR ELSE RTN_ERROR
       /\ coilLog' = RunCommands(PopulateCoilMapCommands, OutcomeFails(outcome)).log
  /\ pc' = "calc"
  /\ UNCHANGED <<exitCode, runEvents, runPos, args, eventStatus, eventLog, popCall, joggleCall, coilDb, sinkScs, dbLog, scsAxisPositionMap, scsPosDetail, arrAdjMark,
                 currentAngle, tAccumAdj, inTransition, hqpNumberPrev, layerNumberPrev,
                 connectStatus, insertStatus, rowInsertFailed, genStatus, passes,
                 firstPassMap>>

\* main calls GeneratePositionTables whatever GenerateCoilMap returned; it
\* enters CalculateAxisMoves, whose locals start afresh
CalculateAxisMovesBegin ==
  /\ pc = "calc"
  /\ pc' = "loop"
  /\ currentAngle' = INITIAL_COLUMN_ANGLE
  /\ tAccumAdj' = 0
  /\ inTransition' = FALSE
  /\ hqpNumberPrev' = 0
  /\ layerNumberPrev' = 0
  /\ connectStatus' = 0
  /\ insertStatus' = 0
  /\ passes' = passes + 1
  /\ UNCHANGED <<exitCode, runEvents, runPos, args, eventStatus, eventLog, coilLog, popCall, joggleCall, coilDb, sinkScs, dbLog, mapCoil, setJoggleAngles, coilStatus,
                 scsAxisPositionMap, scsPosDetail, arrAdjMark, rowInsertFailed,
                 genStatus, firstPassMap>>

\* What an iteration has before it looks at the column: the first iteration
\* seeds the start of the coil and sets both previous numbers to 1, the others
\* run the boundary lookahead.
IterationStart(map, marks, currentAng, tAccum, hqpPrev, layerPrev, uninit) ==
  IF currentAng = INITIAL_COLUMN_ANGLE
  THEN LET soc == MapCoilStartScsPositions(map, marks, SOC_POST_LOAD_ANGLE,
                                           SOC_INIT_RETR_ANGLE, SOC_INIT_ADV_ANGLE, tAccum)
       IN  [map |-> soc.map, marks |-> soc.marks, tAccumAdj |-> soc.tAdj,
            hqpNumberPrev |-> 1, layerNumberPrev |-> 1, trace |-> <<>>]
  ELSE LET bnd == LayerBoundary(map, currentAng, hqpPrev, layerPrev, uninit)
       IN  [map |-> bnd.map, marks |-> marks, tAccumAdj |-> tAccum,
            hqpNumberPrev |-> bnd.hqpNumberPrev, layerNumberPrev |-> bnd.layerNumberPrev,
            trace |-> bnd.trace]

\* the turns the two feet of the column move to, and whether the column is on
\* the last turn of its layer and on the last layer of its pancake
ColumnTurns(currentAng, layerNumber) ==
  LET isEvenLayer == (0 = CRem(layerNumber, 2))
      advancingColumnTurn == GetTurnLb(Deg(currentAng))
  IN  [isEvenLayer |-> isEvenLayer,
       advancingColumnTurn |-> advancingColumnTurn,
       retreatingColumnTurn |-> IF ~isEvenLayer THEN advancingColumnTurn + 1
                                ELSE advancingColumnTurn - 1,
       isLastTurn |-> isLastTurnLb(advancingColumnTurn, isEvenLayer),
       isLastLayer |-> isLastHqLayer(layerNumber)]

\* logicTrace as it stands before the foot moves are worked out
LogicTrace(currentAng, startTrace, transTrace, wl, ct) ==
  << TraceEntry("Column Ang: ", currentAng, 0) >>
  \o startTrace \o transTrace \o wl.trace
  \o << TraceEntry(IF ~ct.isEvenLayer THEN "Odd Layer(), " ELSE "Even Layer(), ",
                   wl.layerNumber, 0),
        TraceEntry(IF ct.isLastTurn THEN "Last Turn, " ELSE "Not Last Turn, ", 0, 0),
        TraceEntry(IF ct.isLastLayer THEN "LastLayer. " ELSE "NotLastLayer. ", 0, 0) >>

\* The advancing foot of the column: nothing is recorded on the last layer.
\* cleared says the accumulator and the column marks are cleared.
AdvancingFoot(map, currentAng, j, ts, ct, logicTrace, posDetail) ==
  LET am == AdvancingMove(j.type, ct.isLastTurn, ts.tThisAdj)
      advPop == PopScsPosDetail(Deg(currentAng), ct.isEvenLayer, "FOOT_ROLE_ADVANCING",
                                am.mode, am.dist, 0, logicTrace \o am.trace, ts.inTransition,
                                ts.isJoggleAdj, FALSE, FALSE, ct.isLastTurn, ct.isLastLayer,
                                FootMoveHqpAdj(ct.isLastTurn, ct.isLastLayer, ts.isJoggleAdj),
                                FootMoveLayerAdj(ct.isLastTurn, ts.isJoggleAdj), posDetail)
      advDetail == MoveSummary(advPop.posDetail, "*MS: Adv Ft To Trn: ",
                               ct.advancingColumnTurn, am.mode, -1)
  IN  IF ~ct.isLastLayer
      THEN [map |-> IF RTN_NO_ERROR = advPop.status
                    THEN MapScsAxisMovesLong(map,
                           currentAng - RoundToLong(ADV_FOOT_RIA_OFFSET_ANGLE), advDetail)
                    ELSE map,
            posDetail |-> advDetail, cleared |-> am.leaving,
            trace |-> logicTrace \o am.trace]
      ELSE [map |-> map, posDetail |-> posDetail, cleared |-> ct.isLastTurn,
            trace |-> logicTrace]

\* the retreating foot of the column
RetreatingFoot(map, currentAng, j, ts, ct, logicTrace, posDetail) ==
  LET rm == RetreatingMove(j.type, ct.isLastTurn, ts.tThisAdj, j.jAdj)
      retPop == PopScsPosDetail(Deg(currentAng), ct.isEvenLayer, "FOOT_ROLE_RETREATING",
                                rm.mode, rm.dist, 0, logicTrace \o rm.trace, ts.inTransition,
                                ts.isJoggleAdj, FALSE, FALSE, ct.isLastTurn, ct.isLastLayer,
                                FootMoveHqpAdj(ct.isLastTurn, ct.isLastLayer, ts.isJoggleAdj),
                                FootMoveLayerAdj(ct.isLastTurn, ts.isJoggleAdj), posDetail)
      retDetail == MoveSummary(retPop.posDetail, "*MS: Ret Ft To Trn: ",
                               ct.retreatingColumnTurn, rm.mode, 1)
  IN  [map |-> IF RTN_NO_ERROR = retPop.status
               THEN MapScsAxisMovesLong(map,
                      currentAng - RoundToLong(RET_FOOT_RIA_OFFSET_ANGLE), retDetail)
               ELSE map,
       posDetail |-> retDetail, mode |-> rm.mode, status |-> retPop.status]

\* One iteration of the loop of CalculateAxisMoves, for the column at
\* currentAngle: the seed records of the start of the coil or of a layer
\* boundary, then the record of the advancing foot and the record of the
\* retreating foot.  Each value is computed once, in the order the code
\* computes it.
Step ==
  /\ pc = "loop"
  /\ currentAngle <= COIL_ANGLE_MAX
  /\ \E uninit \in BOOLEAN :
     \E start \in { IterationStart(scsAxisPositionMap, arrAdjMark, currentAngle, tAccumAdj,
                                   hqpNumberPrev, layerNumberPrev, uninit) } :
     \E j \in { CalculateJoggleAdjustmentType(Deg(currentAngle)) } :
     \E ts \in { TransitionStep(currentAngle, j, start.marks, start.tAccumAdj, inTransition) } :
     \E wl \in { WorkingLayer(currentAngle, j.type) } :
     \E ct \in { ColumnTurns(currentAngle, wl.layerNumber) } :
     \E logicTrace \in { LogicTrace(currentAngle, start.trace, ts.trace, wl, ct) } :
     \E adv \in { AdvancingFoot(start.map, currentAngle, j, ts, ct, logicTrace, scsPosDetail) } :
     \E ret \in { RetreatingFoot(adv.map, currentAngle, j, ts, ct, adv.trace, adv.posDetail) } :
       /\ joggleCall' = [angle |-> Deg(currentAngle), out |-> j]
       /\ popCall' = [angle |-> Deg(currentAngle), mode |-> ret.mode, status |-> ret.status]
       /\ scsAxisPositionMap' = ret.map
       /\ scsPosDetail' = ret.posDetail
       /\ arrAdjMark' = IF adv.cleared THEN ClearAllTransAdjust(ts.marks) ELSE ts.marks
       /\ tAccumAdj' = IF adv.cleared THEN 0 ELSE ts.tAccumAdj
       /\ inTransition' = ts.inTransition
       /\ hqpNumberPrev' = start.hqpNumberPrev
       /\ layerNumberPrev' = start.layerNumberPrev
  /\ currentAngle' = currentAngle + COLUMN_INCREMENT
  /\ pc' = IF currentAngle + COLUMN_INCREMENT <= COIL_ANGLE_MAX THEN "loop" ELSE "connect"
  /\ UNCHANGED <<exitCode, runEvents, runPos, args, eventStatus, eventLog, coilLog, coilDb, sinkScs, dbLog, mapCoil, setJoggleAngles, coilStatus,
                 connectStatus, insertStatus, rowInsertFailed, genStatus, passes,
                 firstPassMap>>

\* GeneratePositionTables: connectStatus = DbConnect()
DbConnect ==
  /\ pc = "connect"
  /\ \E ok \in BOOLEAN :
       /\ connectStatus' = IF ok THEN RTN_NO_ERROR ELSE RTN_ERROR
       /\ dbLog' = Append(dbLog, << "connect", 0, IF ok THEN 1 ELSE 0 >>)
       /\ pc' = IF ok THEN "delete" ELSE "return"
  /\ UNCHANGED <<exitCode, runEvents, runPos, args, eventStatus, eventLog, coilLog, popCall, joggleCall, coilDb, sinkScs, mapCoil, setJoggleAngles, coilStatus, scsAxisPositionMap,
                 scsPosDetail, arrAdjMark, currentAngle, tAccumAdj, inTransition,
                 hqpNumberPrev, layerNumberPrev, insertStatus, rowInsertFailed, genStatus,
                 passes, firstPassMap>>

\* GeneratePositionTables: DeleteAllPositions(), whose return value is dropped
DeleteAllPositions ==
  /\ pc = "delete"
  /\ \E ok \in BOOLEAN :
       /\ sinkScs' = IF ok THEN <<>> ELSE sinkScs
       /\ dbLog' = Append(dbLog, << "delete", 0, IF ok THEN 1 ELSE 0 >>)
  /\ pc' = "insert"
  /\ UNCHANGED <<exitCode, runEvents, runPos, args, eventStatus, eventLog, coilLog, popCall, joggleCall, coilDb, mapCoil, setJoggleAngles, coilStatus, scsAxisPositionMap,
                 scsPosDetail, arrAdjMark, currentAngle, tAccumAdj, inTransition,
                 hqpNumberPrev, layerNumberPrev, connectStatus, insertStatus,
                 rowInsertFailed, genStatus, passes, firstPassMap>>

\* the sets of rows whose insert fails that the model tries: none, the first
\* row, the last row, every row
FailureSets(map) ==
  { {}, {MinOf(DOMAIN map)}, {MaxOf(DOMAIN map)}, DOMAIN map }

\* GeneratePositionTables: insertStatus = InsertIntoScsDb(), the bulk insert
InsertIntoScsDb ==
  /\ pc = "insert"
  /\ \E failed \in FailureSets(scsAxisPositionMap) :
       /\ sinkScs' = sinkScs \o InsertedRows(scsAxisPositionMap, failed)
       /\ dbLog' = dbLog \o InsertAttempts(scsAxisPositionMap, failed)
       /\ insertStatus' = IF failed = {} THEN RTN_NO_ERROR ELSE RTN_ERROR
       /\ rowInsertFailed' = (failed # {})
  /\ pc' = "cls"
  /\ UNCHANGED <<exitCode, runEvents, runPos, args, eventStatus, eventLog, coilLog, popCall, joggleCall, coilDb, mapCoil, setJoggleAngles, coilStatus, scsAxisPositionMap,
                 scsPosDetail, arrAdjMark, currentAngle, tAccumAdj, inTransition,
                 hqpNumberPrev, layerNumberPrev, connectStatus, genStatus, passes,
                 firstPassMap>>

\* GeneratePositionTables: insertStatus = InsertIntoClsDb()
InsertIntoClsDb ==
  /\ pc = "cls"
  /\ \E ok \in BOOLEAN :
       /\ insertStatus' = IF ok THEN RTN_NO_ERROR ELSE RTN_ERROR
       /\ dbLog' = Append(dbLog, << "cls", 0, IF ok THEN 1 ELSE 0 >>)
  /\ pc' = "disconnect"
  /\ UNCHANGED <<exitCode, runEvents, runPos, args, eventStatus, eventLog, coilLog, popCall, joggleCall, coilDb, sinkScs, mapCoil, setJoggleAngles, coilStatus, scsAxisPositionMap,
                 scsPosDetail, arrAdjMark, currentAngle, tAccumAdj, inTransition,
                 hqpNumberPrev, layerNumberPrev, connectStatus, rowInsertFailed, genStatus,
                 passes, firstPassMap>>

\* GeneratePositionTables: connectStatus = DbDisconnect()
DbDisconnect ==
  /\ pc = "disconnect"
  /\ \E ok \in BOOLEAN :
       /\ connectStatus' = IF ok THEN RTN_NO_ERROR ELSE RTN_ERROR
       /\ dbLog' = Append(dbLog, << "disconnect", 0, IF ok THEN 1 ELSE 0 >>)
  /\ pc' = "return"
  /\ UNCHANGED <<exitCode, runEvents, runPos, args, eventStatus, eventLog, coilLog, popCall, joggleCall, coilDb, sinkScs, mapCoil, setJoggleAngles, coilStatus, scsAxisPositionMap,
                 scsPosDetail, arrAdjMark, currentAngle, tAccumAdj, inTransition,
                 hqpNumberPrev, layerNumberPrev, insertStatus, rowInsertFailed, genStatus,
                 passes, firstPassMap>>

\* GeneratePositionTables returns
Return ==
  /\ pc = "return"
  /\ genStatus' = IF RTN_NO_ERROR = connectStatus /\ RTN_NO_ERROR = insertStatus
                  THEN RTN_NO_ERROR ELSE RTN_ERROR
  /\ pc' = "done"
  /\ UNCHANGED <<exitCode, runEvents, runPos, args, eventStatus, eventLog, coilLog, popCall, joggleCall, coilDb, sinkScs, dbLog, mapCoil, setJoggleAngles, coilStatus,
                 scsAxisPositionMap, scsPosDetail, arrAdjMark, currentAngle, tAccumAdj,
                 inTransition, hqpNumberPrev, layerNumberPrev, connectStatus, insertStatus,
                 rowInsertFailed, passes, firstPassMap>>

Next ==
  \/ GenerateCoilMap
  \/ CalculateAxisMovesBegin
  \/ Step
  \/ DbConnect
  \/ DeleteAllPositions
  \/ InsertIntoScsDb
  \/ InsertIntoClsDb
  \/ DbDisconnect
  \/ Return

Spec == Init /\ [][Next]_vars

\* what an iteration of the loop does to the loop variable: Step with
\* everything but its guard and the for statement's increment left out.  The
\* rest of Step gives every other variable a value and tests nothing, so the
\* two are enabled in the same states.
StepEnds ==
  /\ pc = "loop"
  /\ currentAngle <= COIL_ANGLE_MAX
  /\ currentAngle' = currentAngle + COLUMN_INCREMENT

\* main is one thread that runs on: the coil map load returns, the pass is
\* entered, and an iteration that has begun ends
SpecWindows == InitWindows /\ [][Next]_vars

SpecLive ==
  /\ Spec
  /\ WF_vars(GenerateCoilMap)
  /\ WF_vars(CalculateAxisMovesBegin)
  /\ WF_currentAngle(StepEnds)

----------------------------------------------------------------------------
(* A second pass on the same object *)

\* CalculateAxisMoves is entered again once the first pass has ended, with
\* the coil map still loaded
CalculateAxisMovesAgain ==
  /\ pc = "connect"
  /\ passes = 1
  /\ firstPassMap' = scsAxisPositionMap
  /\ pc' = "calc"
  /\ UNCHANGED <<exitCode, runEvents, runPos, args, eventStatus, eventLog, coilLog, popCall, joggleCall, coilDb, sinkScs, dbLog, mapCoil, setJoggleAngles, coilStatus,
                 scsAxisPositionMap, scsPosDetail, arrAdjMark, currentAngle, tAccumAdj,
                 inTransition, hqpNumberPrev, layerNumberPrev, connectStatus, insertStatus,
                 rowInsertFailed, genStatus, passes>>

NextTwice ==
  \/ GenerateCoilMap
  \/ CalculateAxisMovesBegin
  \/ Step
  \/ CalculateAxisMovesAgain

SpecTwice == Init /\ [][NextTwice]_vars

----------------------------------------------------------------------------
(* MapScsAxisMoves on its own *)

\* the angles, in hundredths of a degree, and the records the inserts are
\* tried with
InsertAngles == {-251, -150, -50, 49, 50, 151, 249}

InsertDetails == {NewPosDetail, [NewPosDetail EXCEPT !.isNewHqp = TRUE, !.hqpAdj = 1]}

InitInsert ==
  /\ pc = "map"
  /\ coilDb = CHOOSE p \in CoilInputs : p.layers = 2
  /\ sinkScs = <<>>
  /\ dbLog = <<>>
  /\ mapCoil = <<>>
  /\ setJoggleAngles = {}
  /\ coilStatus = 0
  /\ scsAxisPositionMap = <<>>
  /\ scsPosDetail = NewPosDetail
  /\ arrAdjMark = NoAdjMark
  /\ currentAngle = INITIAL_COLUMN_ANGLE
  /\ tAccumAdj = 0
  /\ inTransition = FALSE
  /\ hqpNumberPrev = 0
  /\ layerNumberPrev = 0
  /\ connectStatus = 0
  /\ insertStatus = 0
  /\ rowInsertFailed = FALSE
  /\ genStatus = 0
  /\ passes = 0
  /\ firstPassMap = <<>>
  /\ joggleCall = NoJoggleCall
  /\ popCall = NoPopCall
  /\ coilLog = <<>>
  /\ eventLog = <<>>
  /\ eventStatus = 0
  /\ args = <<>>
  /\ runPos = TRUE
  /\ runEvents = FALSE
  /\ exitCode = NotExited

\* MapScsAxisMoves(double angle, posDetail)
MapScsAxisMovesCall ==
  /\ pc = "map"
  /\ \E angle \in InsertAngles, posDetail \in InsertDetails :
       scsAxisPositionMap' = MapScsAxisMoves(scsAxisPositionMap, angle, posDetail)
  /\ UNCHANGED <<exitCode, runEvents, runPos, args, eventStatus, eventLog, coilLog, popCall, joggleCall, pc, coilDb, sinkScs, dbLog, mapCoil, setJoggleAngles, coilStatus,
                 scsPosDetail, arrAdjMark, currentAngle, tAccumAdj, inTransition,
                 hqpNumberPrev, layerNumberPrev, connectStatus, insertStatus,
                 rowInsertFailed, genStatus, passes, firstPassMap>>

SpecInsert == InitInsert /\ [][MapScsAxisMovesCall]_vars

----------------------------------------------------------------------------
(* CalculateJoggleAdjustmentType on its own *)

\* a coil whose only joggle is at 1000 degrees, on turn 1 of its second layer
SingleJoggleRows ==
  << [angle |-> 0, fc |-> FC_LOCAL, hqp |-> 1, layer |-> 1, turn |-> 1,
      azimuth |-> 0, radius |-> ModelRadius],
     [angle |-> Deg(1000), fc |-> FC_JOGGLE, hqp |-> 1, layer |-> 2, turn |-> 1,
      azimuth |-> Deg(280), radius |-> ModelRadius] >>

\* a coil whose joggles lie less than a turn and less than two turns apart:
\* at 1000, 1350 and 2065 degrees, each on turn 1 of a layer
CloseJoggleRows ==
  << [angle |-> 0, fc |-> FC_LOCAL, hqp |-> 1, layer |-> 1, turn |-> 1,
      azimuth |-> 0, radius |-> ModelRadius],
     [angle |-> Deg(1000), fc |-> FC_JOGGLE, hqp |-> 1, layer |-> 2, turn |-> 1,
      azimuth |-> Deg(280), radius |-> ModelRadius],
     [angle |-> Deg(1350), fc |-> FC_JOGGLE, hqp |-> 1, layer |-> 3, turn |-> 1,
      azimuth |-> Deg(270), radius |-> ModelRadius],
     [angle |-> Deg(2065), fc |-> FC_JOGGLE, hqp |-> 1, layer |-> 4, turn |-> 1,
      azimuth |-> Deg(265), radius |-> ModelRadius] >>

\* the loaded coils the classification is tried on
JoggleInputs ==
  {[map |-> SingleJoggleRows, joggles |-> {Deg(1000)}],
   [map |-> CloseJoggleRows, joggles |-> {Deg(1000), Deg(1350), Deg(2065)}]}
    \cup {[map |-> CoilRows(p), joggles |-> JoggleAngles(p)] : p \in CoilInputs}

\* the angles tried: around both ends of the look-ahead window of each joggle,
\* around both ends of the window after it, around the end of the window a
\* turn after it, and far past it
JoggleOffsets ==
  LET ends == {0, JOGGLE_LENGTH_MIN, JOGGLE_LENGTH_MAX}
  IN  UNION {{e - 1, e, e + 1, e + Deg(2) + 1} : e \in ends}
        \cup UNION {{e - Deg(360) - 1, e - Deg(360), e - Deg(360) + 1} : e \in ends}
        \cup UNION {{e + Deg(360) - 1, e + Deg(360), e + Deg(360) + 1} : e \in ends}
        \cup {Deg(2), Deg(1500)}

JoggleProbes == {j + d : j \in setJoggleAngles, d \in JoggleOffsets}

InitJoggle ==
  /\ pc = "classify"
  /\ \E in \in JoggleInputs :
       /\ mapCoil = in.map
       /\ setJoggleAngles = in.joggles
  /\ coilDb = CHOOSE p \in CoilInputs : p.layers = 2
  /\ sinkScs = <<>>
  /\ dbLog = <<>>
  /\ coilStatus = RTN_NO_ERROR
  /\ scsAxisPositionMap = <<>>
  /\ scsPosDetail = NewPosDetail
  /\ arrAdjMark = NoAdjMark
  /\ currentAngle = INITIAL_COLUMN_ANGLE
  /\ tAccumAdj = 0
  /\ inTransition = FALSE
  /\ hqpNumberPrev = 0
  /\ layerNumberPrev = 0
  /\ connectStatus = 0
  /\ insertStatus = 0
  /\ rowInsertFailed = FALSE
  /\ genStatus = 0
  /\ passes = 0
  /\ firstPassMap = <<>>
  /\ joggleCall = NoJoggleCall
  /\ popCall = NoPopCall
  /\ coilLog = <<>>
  /\ eventLog = <<>>
  /\ eventStatus = 0
  /\ args = <<>>
  /\ runPos = TRUE
  /\ runEvents = FALSE
  /\ exitCode = NotExited

\* CalculateJoggleAdjustmentType(angle, degToNextJoggle, degToPrevJoggle, jAdj)
CalculateJoggleAdjustmentTypeCall ==
  /\ pc = "classify"
  /\ \E angle \in JoggleProbes :
       joggleCall' = [angle |-> angle, out |-> CalculateJoggleAdjustmentType(angle)]
  /\ UNCHANGED <<exitCode, runEvents, runPos, args, eventStatus, eventLog, coilLog, popCall, pc, coilDb, sinkScs, dbLog, mapCoil, setJoggleAngles, coilStatus,
                 scsAxisPositionMap, scsPosDetail, arrAdjMark, currentAngle, tAccumAdj,
                 inTransition, hqpNumberPrev, layerNumberPrev, connectStatus,
                 insertStatus, rowInsertFailed, genStatus, passes, firstPassMap>>

SpecJoggle == InitJoggle /\ [][CalculateJoggleAdjustmentTypeCall]_vars

----------------------------------------------------------------------------
(* PopScsPosDetail and its callers on their own *)

\* how many rows the position map, and how many entries the trace of the
\* scratch record, may hold when a call is tried
MaxPopRows == 2

MaxPopTrace == 4

\* the coil angles tried, in hundredths of a degree: column A, column A a turn
\* on, column F a turn back, half a degree past column A, and two angles that
\* are on no column
PopAngles ==
  {Deg(A_COLUMN_AZIMUTH), Deg(A_COLUMN_AZIMUTH) + Deg(360), Deg(F_COLUMN_AZIMUTH) - Deg(360),
   Deg(A_COLUMN_AZIMUTH) + 50, Deg(A_COLUMN_AZIMUTH) + Deg(1),
   (Deg(F_COLUMN_AZIMUTH) - Deg(360)) - Deg(1)}

\* the insert modes tried: one for a single axis, one for all axes and a
\* value that is none of the enumerators
PopModes == {"IM_ABS_UPDATE_SEL", "IM_ABS_ALL", "IM_NONE"}

\* enum insertMode
InsertModes == {"IM_REL_SEL", "IM_ABS_SEL", "IM_ABS_UPDATE_SEL", "IM_REL_ALL", "IM_ABS_ALL"}

InitPopulate ==
  /\ pc = "populate"
  /\ coilDb = CHOOSE p \in CoilInputs : p.layers = 2
  /\ mapCoil = CoilRows(CHOOSE p \in CoilInputs : p.layers = 2)
  /\ setJoggleAngles = JoggleAngles(CHOOSE p \in CoilInputs : p.layers = 2)
  /\ sinkScs = <<>>
  /\ dbLog = <<>>
  /\ coilStatus = RTN_NO_ERROR
  /\ scsAxisPositionMap = <<>>
  /\ scsPosDetail = NewPosDetail
  /\ arrAdjMark = NoAdjMark
  /\ currentAngle = INITIAL_COLUMN_ANGLE
  /\ tAccumAdj = 0
  /\ inTransition = FALSE
  /\ hqpNumberPrev = 0
  /\ layerNumberPrev = 0
  /\ connectStatus = 0
  /\ insertStatus = 0
  /\ rowInsertFailed = FALSE
  /\ genStatus = 0
  /\ passes = 0
  /\ firstPassMap = <<>>
  /\ joggleCall = NoJoggleCall
  /\ popCall = NoPopCall
  /\ coilLog = <<>>
  /\ eventLog = <<>>
  /\ eventStatus = 0
  /\ args = <<>>
  /\ runPos = TRUE
  /\ runEvents = FALSE
  /\ exitCode = NotExited

\* What CalculateAxisMoves does for a foot: populate the scratch record,
\* append the move summary, and insert the record at the key of the foot when
\* the populate succeeded.
PopulateFoot(angles, modes) ==
  /\ pc = "populate"
  /\ Cardinality(DOMAIN scsAxisPositionMap) < MaxPopRows
  /\ Len(scsPosDetail.trace) < MaxPopTrace
  /\ \E angle \in angles, mode \in modes,
        role \in {"FOOT_ROLE_ADVANCING", "FOOT_ROLE_RETREATING"} :
     \E pop \in { PopScsPosDetail(angle, FALSE, role, mode, TURN_INDEX_NOMINAL, 0, <<>>,
                                   FALSE, FALSE, FALSE, FALSE, FALSE, FALSE, 0, 0,
                                   scsPosDetail) } :
     \E detail \in { MoveSummary(pop.posDetail,
                                  IF role = "FOOT_ROLE_ADVANCING" THEN "*MS: Adv Ft To Trn: "
                                  ELSE "*MS: Ret Ft To Trn: ",
                                  1, mode, IF role = "FOOT_ROLE_ADVANCING" THEN -1 ELSE 1) } :
       /\ popCall' = [angle |-> angle, mode |-> mode, status |-> pop.status]
       /\ scsPosDetail' = detail
       /\ scsAxisPositionMap' =
            IF RTN_NO_ERROR = pop.status
            THEN MapScsAxisMovesLong(scsAxisPositionMap,
                   TruncToLong(angle) - RoundToLong(IF role = "FOOT_ROLE_ADVANCING"
                                                     THEN ADV_FOOT_RIA_OFFSET_ANGLE
                                                     ELSE RET_FOOT_RIA_OFFSET_ANGLE),
                   detail)
            ELSE scsAxisPositionMap
  /\ UNCHANGED <<exitCode, runEvents, runPos, args, eventStatus, eventLog, coilLog, pc, coilDb, sinkScs, dbLog, mapCoil, setJoggleAngles, coilStatus,
                 arrAdjMark, currentAngle, tAccumAdj, inTransition, hqpNumberPrev,
                 layerNumberPrev, connectStatus, insertStatus, rowInsertFailed, genStatus,
                 passes, firstPassMap, joggleCall>>

PopulateFootCall == PopulateFoot(PopAngles, PopModes)

\* MapPostLoadScsPositions(angle, isInJoggleWindow) and the status it returns
MapPostLoadScsPositionsCall ==
  /\ pc = "populate"
  /\ Cardinality(DOMAIN scsAxisPositionMap) < MaxPopRows
  /\ \E angle \in PopAngles, isInJoggleWindow \in BOOLEAN :
     \E pop \in { PopScsPosDetail(angle, FALSE, "FOOT_ROLE_ADVANCING", "IM_ABS_ALL",
                                   RETREATING_FOOT_START_POS, ADVANCING_FOOT_START_POS, <<>>,
                                   FALSE, isInJoggleWindow, TRUE, FALSE, FALSE, FALSE,
                                   PostLoadAdj(isInJoggleWindow), PostLoadAdj(isInJoggleWindow),
                                   NewPosDetail) } :
       /\ popCall' = [angle |-> angle, mode |-> "IM_ABS_ALL", status |-> pop.status]
       /\ scsAxisPositionMap' =
            MapPostLoadScsPositions(scsAxisPositionMap, angle, isInJoggleWindow)
  /\ UNCHANGED <<exitCode, runEvents, runPos, args, eventStatus, eventLog, coilLog, pc, coilDb, sinkScs, dbLog, mapCoil, setJoggleAngles, coilStatus,
                 scsPosDetail, arrAdjMark, currentAngle, tAccumAdj, inTransition,
                 hqpNumberPrev, layerNumberPrev, connectStatus, insertStatus,
                 rowInsertFailed, genStatus, passes, firstPassMap, joggleCall>>

NextPopulate == PopulateFootCall \/ MapPostLoadScsPositionsCall

SpecPopulate == InitPopulate /\ [][NextPopulate]_vars

\* the feet of column A on two turns, populated with each of the insert modes
PopulateModeCall ==
  PopulateFoot({Deg(A_COLUMN_AZIMUTH), Deg(A_COLUMN_AZIMUTH) + Deg(360)}, InsertModes)

SpecModes == InitPopulate /\ [][PopulateModeCall]_vars

----------------------------------------------------------------------------
(* The position tables and the event table *)

MaxFaults == 2

\* the sets of commands of a call that fail when attempted
FaultSets(cmds) ==
  {f \in SUBSET {cmds[i].name : i \in {j \in DOMAIN cmds : cmds[j].kind # "call"}} :
     Cardinality(f) <= MaxFaults}

\* the commands of GenerateEventMapTable, given the commands that fail and
\* the run of the PopulateCoilMap it calls on its own coil map
EventRun(coilRun, fails) ==
  RunCommands(GenerateEventMapTableCommands,
              fails \cup (IF TableStatus(coilRun.status) = RTN_NO_ERROR
                          THEN {} ELSE {"coilMap_.PopulateCoilMap"}))

\* main with the event table selected: eventMap1.GenerateEventMapTable(),
\* once the position tables have been generated when they are selected too.
\* The contents of the event map are not followed, only the commands and the
\* statuses.
GenerateEventMapTable ==
  /\ runEvents
  /\ \/ pc = "main" /\ ~runPos
     \/ pc = "done"
  /\ \E coilRun \in {RunCommands(PopulateCoilMapCommands, f) :
                        f \in FaultSets(PopulateCoilMapCommands)} :
       \E run \in {EventRun(coilRun, f) : f \in FaultSets(GenerateEventMapTableCommands)} :
           /\ eventLog' = run.log
           /\ coilLog' = IF RTN_NO_ERROR = run.status.connectStatus
                         THEN coilRun.log ELSE coilLog
           /\ eventStatus' = TableStatus(run.status)
  /\ pc' = "end"
  /\ UNCHANGED <<exitCode, runEvents, runPos, args, coilDb, sinkScs, dbLog, mapCoil, setJoggleAngles, coilStatus,
                 scsAxisPositionMap, scsPosDetail, arrAdjMark, currentAngle, tAccumAdj,
                 inTransition, hqpNumberPrev, layerNumberPrev, connectStatus, insertStatus,
                 rowInsertFailed, genStatus, passes, firstPassMap, joggleCall, popCall>>

\* one coil, so that the runs differ in what fails; one of the two tables is
\* selected
InitEvents ==
  /\ \E pos \in BOOLEAN : InitAt("main", <<>>, pos, ~pos)
  /\ coilDb.layers = 2
  /\ sinkScs = <<>>

NextEvents ==
  \/ Next
  \/ GenerateEventMapTable

SpecEvents == InitEvents /\ [][NextEvents]_vars

----------------------------------------------------------------------------
(* main: the arguments, then the tables they select *)

MaxArgs == 3

\* the arguments the model gives the program: every spelling main knows, and
\* two it does not
Arguments == {"-h", "-H", "-?", "-help", "-Help", "-p", "-P", "-e", "-E", "-x", "p"}

RECURSIVE ArgLists(_)
ArgLists(n) ==
  IF n = 0 THEN {<<>>}
  ELSE ArgLists(n - 1) \cup {Append(l, a) : l \in {m \in ArgLists(n - 1) : Len(m) = n - 1},
                                            a \in Arguments}

\* a help test that knows the lower case spelling only
IsHelpLowerCaseOnly(arg) == "-h" = arg

IsHelp(arg) == "-h" = arg \/ "-H" = arg \/ "-?" = arg \/ "-help" = arg \/ "-Help" = arg

IsPos(arg) == "-p" = arg \/ "-P" = arg

IsEvents(arg) == "-e" = arg \/ "-E" = arg

\* main is entered with up to MaxArgs arguments
InitMain ==
  /\ \E arguments \in ArgLists(MaxArgs) : InitAt("argc", arguments, FALSE, FALSE)
  /\ coilDb.layers = 2
  /\ sinkScs = <<>>

\* if (1 == argc): no argument, usage, return 1
CheckArgumentCount ==
  /\ pc = "argc"
  /\ pc' = IF args = <<>> THEN "exit" ELSE "args"
  /\ exitCode' = IF args = <<>> THEN 1 ELSE exitCode
  /\ UNCHANGED <<coilDb, sinkScs, dbLog, mapCoil, setJoggleAngles, coilStatus,
                 scsAxisPositionMap, scsPosDetail, arrAdjMark, currentAngle, tAccumAdj,
                 inTransition, hqpNumberPrev, layerNumberPrev, connectStatus, insertStatus,
                 rowInsertFailed, genStatus, passes, firstPassMap, joggleCall, popCall,
                 coilLog, eventLog, eventStatus, args, runPos, runEvents>>

\* one iteration of the loop over the arguments; after the last argument main
\* goes on to the tables
ProcessArgument ==
  /\ pc = "args"
  /\ args # <<>>
  /\ \E arg \in {Head(args)} :
       /\ args' = Tail(args)
       /\ runPos' = IF ~IsHelp(arg) /\ IsPos(arg) THEN TRUE ELSE runPos
       /\ runEvents' = IF ~IsHelp(arg) /\ ~IsPos(arg) /\ IsEvents(arg) THEN TRUE ELSE runEvents
       /\ exitCode' = IF IsHelp(arg) THEN 0
                      ELSE IF IsPos(arg) \/ IsEvents(arg) THEN exitCode
                      ELSE 1
       /\ pc' = IF IsHelp(arg) \/ ~(IsPos(arg) \/ IsEvents(arg)) THEN "exit"
                ELSE IF Tail(args) = <<>> THEN "main"
                ELSE "args"
  /\ UNCHANGED <<coilDb, sinkScs, dbLog, mapCoil, setJoggleAngles, coilStatus,
                 scsAxisPositionMap, scsPosDetail, arrAdjMark, currentAngle, tAccumAdj,
                 inTransition, hqpNumberPrev, layerNumberPrev, connectStatus, insertStatus,
                 rowInsertFailed, genStatus, passes, firstPassMap, joggleCall, popCall,
                 coilLog, eventLog, eventStatus>>

\* the end of main: return 0, once the tables selected have been generated
ReturnFromMain ==
  /\ \/ pc = "done" /\ ~runEvents
     \/ pc = "end"
  /\ pc' = "exit"
  /\ exitCode' = 0
  /\ UNCHANGED <<coilDb, sinkScs, dbLog, mapCoil, setJoggleAngles, coilStatus,
                 scsAxisPositionMap, scsPosDetail, arrAdjMark, currentAngle, tAccumAdj,
                 inTransition, hqpNumberPrev, layerNumberPrev, connectStatus, insertStatus,
                 rowInsertFailed, genStatus, passes, firstPassMap, joggleCall, popCall,
                 coilLog, eventLog, eventStatus, args, runPos, runEvents>>

NextMain ==
  \/ CheckArgumentCount
  \/ ProcessArgument
  \/ Next
  \/ GenerateEventMapTable
  \/ ReturnFromMain

SpecMain == InitMain /\ [][NextMain]_vars

----------------------------------------------------------------------------
(* Properties *)

\* the pass has ended and the database phase has not changed anything yet
PassEnded == pc = "connect"

\* GeneratePositionTables has returned
Returned == pc = "done"

NewHqpKeys(map) == {k \in DOMAIN map : map[k].isNewHqp}

NewLayerKeys(map) == {k \in DOMAIN map : map[k].isNewLayer}

FootMoveKeys(map) == {k \in DOMAIN map : ~map[k].isNewHqp /\ ~map[k].isNewLayer}

\* C1: a second pass on the same object against the same loaded coil map
\* leaves the position map with the key set and the records the first pass
\* left.
C1_SecondPassReproducesFirst ==
  (passes = 2 /\ PassEnded) =>
     /\ DOMAIN scsAxisPositionMap = DOMAIN firstPassMap
     /\ \A k \in DOMAIN firstPassMap : scsAxisPositionMap[k] = firstPassMap[k]

\* C2: once GeneratePositionTables has connected and returned after a
\* successful load, the database saw the delete, then one insert per key of
\* the position map in ascending key order, then the CLS build, then the
\* disconnect; and when it returned RTN_NO_ERROR the table holds exactly the
\* rows of the position map, whatever it held before.
C2_RegenerateThenWrite ==
  (Returned /\ Len(dbLog) > 1 /\ coilStatus = RTN_NO_ERROR) =>
     LET order == KeysAscending(DOMAIN scsAxisPositionMap)
         n == Len(order)
     IN  /\ Len(dbLog) = n + 4
         /\ dbLog[1][1] = "connect"
         /\ dbLog[2][1] = "delete"
         /\ \A i \in 1..n : dbLog[2 + i][1] = "insert" /\ dbLog[2 + i][2] = order[i]
         /\ dbLog[n + 3][1] = "cls"
         /\ dbLog[n + 4][1] = "disconnect"
         /\ (genStatus = RTN_NO_ERROR =>
               sinkScs = InsertedRows(scsAxisPositionMap, {}))

\* C3: after a successful load the bulk insert attempts every row whatever
\* fails, and GeneratePositionTables returns RTN_ERROR whenever a row insert
\* failed.
C3_RowFailureReported ==
  (Returned /\ Len(dbLog) > 1 /\ coilStatus = RTN_NO_ERROR) =>
     /\ Cardinality({i \in DOMAIN dbLog : dbLog[i][1] = "insert"})
          = Cardinality(DOMAIN scsAxisPositionMap)
     /\ (rowInsertFailed => genStatus = RTN_ERROR)

\* C4: when GenerateCoilMap returned an error no pass is run and the
\* database is not touched.
C4_LoadFailureAborts ==
  (coilStatus = RTN_ERROR) =>
     /\ passes = 0
     /\ scsAxisPositionMap = <<>>
     /\ dbLog = <<>>

\* the pair (hqpAdj, layerAdj) of a record
AdjOf(r) == << r.hqpAdj, r.layerAdj >>

\* a state in which the position map holds a foot-move record of a joggle
\* region on the last turn of a layer that is not the last of its pancake, and
\* one on the last turn of the last layer
C5_JoggleLastTurnRecords ==
  /\ \E k \in FootMoveKeys(scsAxisPositionMap) :
       LET r == scsAxisPositionMap[k]
       IN  r.isInJoggle /\ r.isLastTurn /\ ~r.isLastLayer /\ AdjOf(r) = << 0, -1 >>
  /\ \E k \in FootMoveKeys(scsAxisPositionMap) :
       LET r == scsAxisPositionMap[k]
       IN  r.isInJoggle /\ r.isLastTurn /\ r.isLastLayer /\ AdjOf(r) = << -1, -1 >>

\* C5 as stated: every foot-move record has both adjustments 0 outside a
\* joggle region, and inside one has both -1 exactly on the last turn.
C5_FootAdjustmentTable ==
  \A k \in FootMoveKeys(scsAxisPositionMap) :
     LET r == scsAxisPositionMap[k]
     IN  AdjOf(r) = IF r.isInJoggle /\ r.isLastTurn THEN << -1, -1 >> ELSE << 0, 0 >>

\* C5: every foot-move record has layerAdj = -1 exactly when it is in a joggle
\* region on the last turn, and hqpAdj = -1 exactly when it is in a joggle
\* region on the last turn of the last layer of a pancake; both are 0
\* otherwise.
C5_FootAdjustmentByLayer ==
  \A k \in FootMoveKeys(scsAxisPositionMap) :
     LET r == scsAxisPositionMap[k]
     IN  /\ r.layerAdj = IF r.isInJoggle /\ r.isLastTurn THEN -1 ELSE 0
         /\ r.hqpAdj = IF r.isInJoggle /\ r.isLastTurn /\ r.isLastLayer THEN -1 ELSE 0

\* the key of the start-of-coil seed
StartOfCoilKey == RoundToLong(SOC_POST_LOAD_ANGLE)

\* what the adjustment table gives a seed record
SeedTableAdj(r) ==
  IF r.isNewHqp
  THEN (IF r.isInJoggle THEN << 0, 0 >> ELSE << 1, 1 >>)
  ELSE (IF r.isInJoggle THEN << 0, 0 >> ELSE << 0, 1 >>)

\* a state in which the position map holds the start-of-coil seed, a new-HQP
\* seed of a later boundary outside the joggle window and a new-layer seed
C6_SeedsOfEveryKind ==
  /\ StartOfCoilKey \in NewHqpKeys(scsAxisPositionMap)
  /\ \E k \in NewHqpKeys(scsAxisPositionMap) :
       /\ k # StartOfCoilKey
       /\ ~scsAxisPositionMap[k].isInJoggle
       /\ AdjOf(scsAxisPositionMap[k]) = << 1, 1 >>
  /\ \E k \in NewLayerKeys(scsAxisPositionMap) :
       AdjOf(scsAxisPositionMap[k]) = << 0, 1 >>

\* C6 as stated: every seed record, the start-of-coil seed included, has the
\* adjustments of the table.
C6_SeedAdjustmentTable ==
  \A k \in NewHqpKeys(scsAxisPositionMap) \cup NewLayerKeys(scsAxisPositionMap) :
     AdjOf(scsAxisPositionMap[k]) = SeedTableAdj(scsAxisPositionMap[k])

\* C6: every seed record of a layer or pancake boundary has the adjustments
\* of the table; the start-of-coil seed is a new-HQP record outside a joggle
\* region whose adjustments are both 0.
C6_SeedAdjustmentExceptStart ==
  /\ \A k \in (NewHqpKeys(scsAxisPositionMap) \cup NewLayerKeys(scsAxisPositionMap))
                \ {StartOfCoilKey} :
        AdjOf(scsAxisPositionMap[k]) = SeedTableAdj(scsAxisPositionMap[k])
  /\ StartOfCoilKey \in DOMAIN scsAxisPositionMap =>
        LET r == scsAxisPositionMap[StartOfCoilKey]
        IN  r.isNewHqp /\ ~r.isNewLayer /\ ~r.isInJoggle /\ AdjOf(r) = << 0, 0 >>

\* the joggles of the loaded coil map at which the layer number changes and
\* the hex/quad number does not, and those at which the hex/quad number changes
LayerJoggles ==
  {j \in setJoggleAngles :
     LET i == LbIndex(j)
     IN  /\ i > 1
         /\ mapCoil[i].layer # mapCoil[i - 1].layer
         /\ mapCoil[i].hqp = mapCoil[i - 1].hqp}

HqpJoggles ==
  {j \in setJoggleAngles :
     LET i == LbIndex(j)
     IN  i > 1 /\ mapCoil[i].hqp # mapCoil[i - 1].hqp}

\* C7: when a pass over a loaded coil map has ended, the position map holds
\* one new-layer record per joggle that changes the layer only, one new-HQP
\* record besides the start-of-coil seed per joggle that changes the hex/quad
\* number, and so L - 1 new-layer records for a coil of one pancake and L
\* layers.
C7_SeedRowCount ==
  (PassEnded /\ coilStatus = RTN_NO_ERROR) =>
     /\ Cardinality(NewLayerKeys(scsAxisPositionMap)) = Cardinality(LayerJoggles)
     /\ Cardinality(NewHqpKeys(scsAxisPositionMap) \ {StartOfCoilKey}) = Cardinality(HqpJoggles)
     /\ (\A i \in DOMAIN mapCoil : mapCoil[i].hqp = mapCoil[1].hqp) =>
           Cardinality(NewLayerKeys(scsAxisPositionMap)) = mapCoil[Len(mapCoil)].layer - 1

\* a state in which the position map holds the new-HQP seed of a boundary
\* after the start of the coil, no new-layer seed of the column that found
\* that boundary, and new-layer seeds of other boundaries
C8_HqpSeedWithoutLayerSeed ==
  /\ NewLayerKeys(scsAxisPositionMap) # {}
  /\ \E k \in NewHqpKeys(scsAxisPositionMap) :
       /\ k # StartOfCoilKey
       /\ \A m \in NewLayerKeys(scsAxisPositionMap) :
            scsAxisPositionMap[m].coilAngle # scsAxisPositionMap[k].coilAngle

\* C8: no record is both a new-HQP and a new-layer record; an iteration whose
\* lookahead finds a boundary with a changed hex/quad number seeds a new-HQP
\* record and adds no new-layer record; an iteration adds a new-layer record
\* only when its lookahead finds a boundary with the hex/quad number
\* unchanged and the layer number changed; and only such an iteration or the
\* first one adds a new-HQP record.
C8_HqpTestedBeforeLayer ==
  /\ [](\A k \in DOMAIN scsAxisPositionMap :
          ~(scsAxisPositionMap[k].isNewHqp /\ scsAxisPositionMap[k].isNewLayer))
  /\ [](pc = "loop" /\ currentAngle # INITIAL_COLUMN_ANGLE =>
          LET last == isLastMoveOfLayer(Deg(currentAngle))
              hqpDiffers == GetHexQuadNumberLb(last.joggleAngle) # hqpNumberPrev
          IN  (last.stat /\ last.condition /\ hqpDiffers) =>
                 \A uninit \in BOOLEAN :
                    LET bnd == LayerBoundary(scsAxisPositionMap, currentAngle,
                                             hqpNumberPrev, layerNumberPrev, uninit)
                    IN  /\ bnd.seed = "hqp"
                        /\ NewLayerKeys(bnd.map) = NewLayerKeys(scsAxisPositionMap)
                        /\ NewHqpKeys(bnd.map) # NewHqpKeys(scsAxisPositionMap))
  /\ [][pc = "loop" =>
          LET last == isLastMoveOfLayer(Deg(currentAngle))
              fired == /\ currentAngle # INITIAL_COLUMN_ANGLE
                       /\ last.stat /\ last.condition
              hqpDiffers == GetHexQuadNumberLb(last.joggleAngle) # hqpNumberPrev
              layerDiffers == GetLayerLb(last.joggleAngle) # layerNumberPrev
          IN  /\ (fired /\ hqpDiffers) =>
                    NewLayerKeys(scsAxisPositionMap') = NewLayerKeys(scsAxisPositionMap)
              /\ NewLayerKeys(scsAxisPositionMap') # NewLayerKeys(scsAxisPositionMap) =>
                    (fired /\ ~hqpDiffers /\ layerDiffers)
              /\ NewHqpKeys(scsAxisPositionMap') # NewHqpKeys(scsAxisPositionMap) =>
                    (currentAngle = INITIAL_COLUMN_ANGLE \/ (fired /\ hqpDiffers))]_vars

\* a state in which the map holds several records and one of the inserts
\* would land on a key that holds a different record
C9_InsertOnUsedKey ==
  /\ Cardinality(DOMAIN scsAxisPositionMap) >= 2
  /\ \E angle \in InsertAngles, posDetail \in InsertDetails :
       /\ RoundToLong(angle) \in DOMAIN scsAxisPositionMap
       /\ scsAxisPositionMap[RoundToLong(angle)] # posDetail

\* C9: MapScsAxisMoves stores the record at the integer nearest to the angle;
\* that key then holds the record, every other key keeps its record and no
\* other key appears, so an insert at a key in use leaves the key set as it
\* was.
C9_InsertReplacesOneKey ==
  \A angle \in InsertAngles, posDetail \in InsertDetails :
     LET after == MapScsAxisMoves(scsAxisPositionMap, angle, posDetail)
     IN  \E k \in DOMAIN after :
            /\ Abs(Deg(k) - angle) <= 50
            /\ after[k] = posDetail
            /\ DOMAIN after = (DOMAIN scsAxisPositionMap) \cup {k}
            /\ \A other \in (DOMAIN scsAxisPositionMap) \ {k} :
                  after[other] = scsAxisPositionMap[other]
            /\ (k \in DOMAIN scsAxisPositionMap =>
                  Cardinality(DOMAIN after) = Cardinality(DOMAIN scsAxisPositionMap))

ExactLookups(angle) ==
  << GetAngle(angle), GetFc(angle), GetHexQuadNumber(angle), GetLayer(angle),
     GetTurn(angle), GetAzimuth(angle), GetRadius(angle), GetFhltar(angle) >>

LbLookups(angle) ==
  << GetAngleLb(angle), GetFcLb(angle), GetHexQuadNumberLb(angle), GetLayerLb(angle),
     GetTurnLb(angle), GetAzimuthLb(angle), GetRadiusLb(angle), GetFhltarLb(angle) >>

\* what the lookups give when they land on a row, and when they land on none
RowData(row) ==
  << row.angle, row.fc, row.hqp, row.layer, row.turn, row.azimuth, row.radius,
     << row.fc, row.hqp, row.layer, row.turn, row.azimuth, row.radius >> >>

NoRowData ==
  << Deg(NO_FEATURE), NO_FEATURE_STR, NO_FEATURE, NO_FEATURE, NO_FEATURE, Deg(NO_FEATURE),
     Mm(NO_FEATURE),
     << NO_FEATURE_STR, NO_FEATURE, NO_FEATURE, NO_FEATURE, Deg(NO_FEATURE), Mm(NO_FEATURE) >> >>

\* angles strictly between two angles: next to either end and in the middle
Between(a, b) == {q \in {a + 1, (a + b) \div 2, b - 1} : a < q /\ q < b}

\* a state in which the pass has looked up a column angle that lies strictly
\* between two rows of the loaded coil map
C11_ColumnBetweenRows ==
  /\ pc = "loop"
  /\ currentAngle > INITIAL_COLUMN_ANGLE
  /\ \E i \in 1..(Len(mapCoil) - 1) :
       /\ mapCoil[i].angle < Deg(currentAngle - COLUMN_INCREMENT)
       /\ Deg(currentAngle - COLUMN_INCREMENT) < mapCoil[i + 1].angle
       /\ (currentAngle - COLUMN_INCREMENT) - RoundToLong(RET_FOOT_RIA_OFFSET_ANGLE)
            \in DOMAIN scsAxisPositionMap

\* C11: the exact lookups at the angle of a row give that row and give the
\* sentinels at an angle that is no row; the at-or-before lookups at an angle
\* strictly between two consecutive rows give the lower of the two rows.
C11_LowerBoundLaw ==
  /\ \A i \in DOMAIN mapCoil : ExactLookups(mapCoil[i].angle) = RowData(mapCoil[i])
  /\ \A i \in 1..(Len(mapCoil) - 1) :
        \A q \in Between(mapCoil[i].angle, mapCoil[i + 1].angle) :
           /\ ExactLookups(q) = NoRowData
           /\ LbLookups(q) = RowData(mapCoil[i])
  /\ mapCoil # <<>> =>
        /\ ExactLookups(mapCoil[1].angle - 1) = NoRowData
        /\ ExactLookups(mapCoil[Len(mapCoil)].angle + 1) = NoRowData

JogglesAhead(angle) == {j \in setJoggleAngles : j >= angle}

JogglesBehind(angle) == {j \in setJoggleAngles : j <= angle}

\* the window length of a joggle: that of the turn its row is on
WindowOf(joggle) ==
  LET rows == {i \in DOMAIN mapCoil : mapCoil[i].angle <= joggle}
      turn == mapCoil[MaxOf(rows)].turn
  IN  IF turn = 1 THEN JOGGLE_LENGTH_MIN
      ELSE IF turn = TURNS_PER_LAYER THEN JOGGLE_LENGTH_MAX
      ELSE 0

\* a state in which an angle 2 degrees past the only joggle, whose window is
\* 16.18 degrees long, has been classified
C13_TwoDegreesPastJoggle ==
  /\ setJoggleAngles = {Deg(1000)}
  /\ WindowOf(Deg(1000)) = 1618
  /\ joggleCall.angle = Deg(1002)
  /\ joggleCall.out.type = "JA_RET_FULL_ADV_NOP"

\* C13 as stated: an angle whose next joggle lies between 360 degrees less the joggle's
\* window length and 360 degrees ahead is classified retreat-adjust /
\* advance-nominal with half the nominal index as adjustment; an angle between
\* 0 and the window length past its previous joggle is classified
\* retreat-full / advance-none with adjustment 0; an angle more than 360
\* degrees plus the window length past its previous joggle and more than 360
\* degrees before its next is classified nominal with adjustment 0.  With one
\* joggle at 1000 degrees and a window of 16.18 degrees, 640 is in the first
\* case, 1002 in the second and 2500 is nominal.
C13_JoggleRegions ==
  joggleCall # NoJoggleCall =>
    LET a == joggleCall.angle
        out == joggleCall.out
        ahead == JogglesAhead(a)
        behind == JogglesBehind(a)
        next == MinOf(ahead)
        prev == MaxOf(behind)
    IN  /\ (/\ ahead # {}
            /\ Deg(360) - WindowOf(next) <= next - a
            /\ next - a <= Deg(360))
             => out.type = "JA_RET_ADJ_ADV_NOM" /\ 2 * out.jAdj = TURN_INDEX_NOMINAL
        /\ (/\ behind # {}
            /\ 0 <= a - prev
            /\ a - prev <= WindowOf(prev))
             => out.type = "JA_RET_FULL_ADV_NOP" /\ out.jAdj = 0
        /\ (/\ behind # {}
            /\ a - prev > Deg(360) + WindowOf(prev)
            /\ ahead # {}
            /\ next - a > Deg(360))
             => out.type = "JA_RET_NOM_ADV_NOM" /\ out.jAdj = 0
        /\ (setJoggleAngles = {Deg(1000)} /\ WindowOf(Deg(1000)) = 1618) =>
             /\ a = Deg(640) => out.type = "JA_RET_ADJ_ADV_NOM"
             /\ a = Deg(1002) => out.type = "JA_RET_FULL_ADV_NOP"
             /\ a = Deg(2500) => out.type = "JA_RET_NOM_ADV_NOM" /\ out.jAdj = 0

\* C13: an angle whose next joggle lies between 360 degrees less the joggle's
\* window length and 360 degrees ahead is classified retreat-adjust /
\* advance-nominal with half the nominal index as adjustment; an angle between
\* 0 and the window length past its previous joggle is classified
\* retreat-full / advance-none with adjustment 0 unless its next joggle puts
\* it in the first case; an angle more than 360 degrees plus the window length
\* past its previous joggle and more than 360 degrees before its next is
\* classified nominal with adjustment 0.  With one joggle at 1000 degrees and
\* a window of 16.18 degrees, 640 is in the first case, 1002 in the second and
\* 2500 is nominal.
C13_JoggleRegionsNextJoggleFirst ==
  joggleCall # NoJoggleCall =>
    LET a == joggleCall.angle
        out == joggleCall.out
        ahead == JogglesAhead(a)
        behind == JogglesBehind(a)
        next == MinOf(ahead)
        prev == MaxOf(behind)
        first == /\ ahead # {}
                 /\ Deg(360) - WindowOf(next) <= next - a
                 /\ next - a <= Deg(360)
    IN  /\ first => out.type = "JA_RET_ADJ_ADV_NOM" /\ 2 * out.jAdj = TURN_INDEX_NOMINAL
        /\ (/\ behind # {}
            /\ 0 <= a - prev
            /\ a - prev <= WindowOf(prev)
            /\ ~first)
             => out.type = "JA_RET_FULL_ADV_NOP" /\ out.jAdj = 0
        /\ (/\ behind # {}
            /\ a - prev > Deg(360) + WindowOf(prev)
            /\ ahead # {}
            /\ next - a > Deg(360))
             => out.type = "JA_RET_NOM_ADV_NOM" /\ out.jAdj = 0
        /\ (setJoggleAngles = {Deg(1000)} /\ WindowOf(Deg(1000)) = 1618) =>
             /\ a = Deg(640) => out.type = "JA_RET_ADJ_ADV_NOM"
             /\ a = Deg(1002) => out.type = "JA_RET_FULL_ADV_NOP"
             /\ a = Deg(2500) => out.type = "JA_RET_NOM_ADV_NOM" /\ out.jAdj = 0

\* the windows of C13 and the window a turn past the previous joggle
InRegion1(a) ==
  /\ JogglesAhead(a) # {}
  /\ Deg(360) - WindowOf(MinOf(JogglesAhead(a))) <= MinOf(JogglesAhead(a)) - a
  /\ MinOf(JogglesAhead(a)) - a <= Deg(360)

InRegion2(a) ==
  /\ JogglesBehind(a) # {}
  /\ a - MaxOf(JogglesBehind(a)) <= WindowOf(MaxOf(JogglesBehind(a)))

InFormerRegion3(a) ==
  /\ JogglesBehind(a) # {}
  /\ Deg(360) <= a - MaxOf(JogglesBehind(a))
  /\ a - MaxOf(JogglesBehind(a)) <= Deg(360) + WindowOf(MaxOf(JogglesBehind(a)))
  /\ ~InRegion1(a)

\* the note of the branch taken for a retreat-none / advance-nominal
\* classification is in the trace
HasRegion3Note(trace) ==
  \E n \in DOMAIN trace : trace[n][1] = "Past Joggle by degs. Ret Ft No Move, Adv Ft Nom, "

NominalKeys(map, offset) ==
  {k \in FootMoveKeys(map) :
     /\ map[k].selectedAxes[0]
     /\ ~map[k].isInTransition
     /\ ~map[k].isInJoggle
     /\ Deg(k) = map[k].coilAngle - offset}

\* a state in which the pass has recorded, for columns that are neither in a
\* transition nor in a joggle region, feet on a last turn and feet on
\* another turn
C15_NominalAndLastTurnRecords ==
  /\ PassEnded
  /\ \E k \in NominalKeys(scsAxisPositionMap, ADV_FOOT_RIA_OFFSET_ANGLE) :
        scsAxisPositionMap[k].isLastTurn
  /\ \E k \in NominalKeys(scsAxisPositionMap, ADV_FOOT_RIA_OFFSET_ANGLE) :
        ~scsAxisPositionMap[k].isLastTurn
  /\ \E k \in NominalKeys(scsAxisPositionMap, RET_FOOT_RIA_OFFSET_ANGLE) :
        scsAxisPositionMap[k].isLastTurn
  /\ \E k \in NominalKeys(scsAxisPositionMap, RET_FOOT_RIA_OFFSET_ANGLE) :
        ~scsAxisPositionMap[k].isLastTurn

\* C15 as stated: after a pass every single-axis foot-move record that is
\* neither in a transition nor in a joggle region has the nominal index as
\* distance, negative for the advancing foot and positive for the retreating
\* foot.
C15_NominalIndexAlways ==
  PassEnded =>
    /\ \A k \in NominalKeys(scsAxisPositionMap, ADV_FOOT_RIA_OFFSET_ANGLE) :
          scsAxisPositionMap[k].selDist = (-1) * TURN_INDEX_NOMINAL
    /\ \A k \in NominalKeys(scsAxisPositionMap, RET_FOOT_RIA_OFFSET_ANGLE) :
          scsAxisPositionMap[k].selDist = TURN_INDEX_NOMINAL

\* C15: after a pass every such record that is not on the last turn of its
\* layer is an adjustment of the previous position by the nominal index,
\* negative for the advancing foot and positive for the retreating foot;
\* every such record on the last turn is a move to a position, the full
\* extend position for the advancing foot and the full retract position for
\* the retreating foot.
C15_NominalIndexOffLastTurn ==
  PassEnded =>
    /\ \A k \in NominalKeys(scsAxisPositionMap, ADV_FOOT_RIA_OFFSET_ANGLE) :
          LET r == scsAxisPositionMap[k]
          IN  IF r.isLastTurn
              THEN ~r.absAdjust /\ r.selDist = INITIAL_FULL_EXTEND_POS
              ELSE r.absAdjust /\ r.selDist = (-1) * TURN_INDEX_NOMINAL
    /\ \A k \in NominalKeys(scsAxisPositionMap, RET_FOOT_RIA_OFFSET_ANGLE) :
          LET r == scsAxisPositionMap[k]
          IN  IF r.isLastTurn
              THEN ~r.absAdjust /\ r.selDist = INITIAL_FULL_RETRACT_POS
              ELSE r.absAdjust /\ r.selDist = TURN_INDEX_NOMINAL

\* the keys of the two feet of the column at an angle
AdvKey(angle) == angle - RoundToLong(ADV_FOOT_RIA_OFFSET_ANGLE)

RetKey(angle) == angle - RoundToLong(RET_FOOT_RIA_OFFSET_ANGLE)

\* the layer the feet of the column at an angle work on is the last of its
\* pancake: layers 6, 12, 18, 22, 28, 34 and 40 onwards, the layer before that
\* of the row at or before the angle when the classification is retreat-full
OnLastLayer(angle, jAdjType) ==
  LET rows == {i \in DOMAIN mapCoil : mapCoil[i].angle <= Deg(angle)}
      layer == IF jAdjType = "JA_RET_FULL_ADV_NOP"
               THEN mapCoil[MaxOf(rows)].layer - 1
               ELSE mapCoil[MaxOf(rows)].layer
  IN  layer \in {6, 12, 18, 22, 28, 34} \/ layer >= 40

\* the keys an iteration has written: those that are new and those whose
\* record has changed
WrittenKeys(before, after) ==
  {k \in DOMAIN after : k \notin DOMAIN before \/ after[k] # before[k]}

\* a state in which the iteration of a column on the last layer of a pancake
\* has left a record at the key of its advancing foot, and its retreating
\* foot is recorded
C16_SeedAtAdvancingKey ==
  /\ pc = "loop"
  /\ mapCoil # <<>>
  /\ currentAngle > INITIAL_COLUMN_ANGLE
  /\ OnLastLayer(currentAngle - COLUMN_INCREMENT, joggleCall.out.type)
  /\ AdvKey(currentAngle - COLUMN_INCREMENT) \in DOMAIN scsAxisPositionMap
  /\ RetKey(currentAngle - COLUMN_INCREMENT) \in DOMAIN scsAxisPositionMap

\* C16 as stated: once the iteration of a column on the last layer of a
\* pancake has run, nothing is at the key of its advancing foot, and once any
\* iteration has run, the record of the retreating foot of its column is at
\* the key of that foot.
C16_NothingAtAdvancingKey ==
  (pc \in {"loop", "connect"} /\ mapCoil # <<>> /\ currentAngle > INITIAL_COLUMN_ANGLE) =>
     LET angle == currentAngle - COLUMN_INCREMENT
     IN  /\ RetKey(angle) \in DOMAIN scsAxisPositionMap
         /\ scsAxisPositionMap[RetKey(angle)].coilAngle = Deg(angle)
         /\ OnLastLayer(angle, joggleCall.out.type) =>
              AdvKey(angle) \notin DOMAIN scsAxisPositionMap

\* C16: an iteration of a column on the last layer of a pancake writes no
\* foot-move record of the advancing foot: what it writes at the key of that
\* foot, if anything, is the seed of a new pancake.  Every iteration writes
\* the record of the retreating foot at the key of that foot, and the
\* foot-move records it writes for its column are that one and, off the last
\* layer, the one of the advancing foot at its key.
C16_AdvancingFootParked ==
  [][(pc = "loop" /\ mapCoil # <<>>) =>
       LET written == WrittenKeys(scsAxisPositionMap, scsAxisPositionMap')
           moves == {k \in written :
                       /\ scsAxisPositionMap'[k].coilAngle = Deg(currentAngle)
                       /\ ~scsAxisPositionMap'[k].isNewHqp
                       /\ ~scsAxisPositionMap'[k].isNewLayer}
       IN  /\ RetKey(currentAngle) \in moves
           /\ scsAxisPositionMap'[RetKey(currentAngle)].selectedAxes[0]
           /\ IF OnLastLayer(currentAngle, joggleCall'.out.type)
              THEN /\ moves = {RetKey(currentAngle)}
                   /\ AdvKey(currentAngle) \in written =>
                        scsAxisPositionMap'[AdvKey(currentAngle)].isNewHqp
              ELSE /\ moves = {RetKey(currentAngle), AdvKey(currentAngle)}
                   /\ scsAxisPositionMap'[AdvKey(currentAngle)].selectedAxes[0]]_vars

\* the azimuth of a coil angle: its whole degrees, taken modulo 360 into
\* 0..359
AzimuthOf(angle) ==
  (IF angle >= 0 THEN angle \div 100 ELSE -((-angle) \div 100)) % 360

ColumnAzimuths == {30, 90, 150, 210, 270, 330}

RecognisedModes == {"IM_REL_SEL", "IM_ABS_SEL", "IM_ABS_UPDATE_SEL", "IM_REL_ALL", "IM_ABS_ALL"}

\* a state in which a populate at an angle on no column has failed while the
\* position map holds a row of an earlier populate
C17_FailedPopulateAfterRow ==
  /\ popCall.status = RTN_ERROR
  /\ AzimuthOf(popCall.angle) \notin ColumnAzimuths
  /\ popCall.mode \in RecognisedModes
  /\ scsAxisPositionMap # <<>>

\* C17: PopScsPosDetail returns the error status exactly when the azimuth of
\* the coil angle is none of 30, 90, 150, 210, 270 and 330 or the insert mode
\* is none of the enumerators, and the success status otherwise; on the error
\* the caller leaves the position map as it was and goes on, and on success
\* the record of the coil angle is in the position map.
C17_PopulateFailureDropsRow ==
  /\ [](popCall # NoPopCall =>
          /\ popCall.status \in {RTN_ERROR, RTN_NO_ERROR}
          /\ popCall.status = RTN_ERROR <=>
               (\/ AzimuthOf(popCall.angle) \notin ColumnAzimuths
                \/ popCall.mode \notin RecognisedModes))
  /\ [][/\ popCall'.status = RTN_ERROR =>
             /\ scsAxisPositionMap' = scsAxisPositionMap
             /\ pc' = pc
        /\ popCall'.status = RTN_NO_ERROR =>
             \E k \in DOMAIN scsAxisPositionMap' :
                scsAxisPositionMap'[k].coilAngle = popCall'.angle]_vars

\* the commands of a log that need an open connection
UseCommands == {"query", "fetch", "delete", "insert", "cls"}

Connected(log) == log # <<>> /\ log[1] = << "connect", 0, 1 >>

Disconnects(log) == {i \in DOMAIN log : log[i][1] = "disconnect"}

\* the log of one call: one connect, first; nothing else unless it succeeded;
\* at most one disconnect, with nothing after it; and, once the call has
\* ended, a disconnect exactly when the connect succeeded
ScopedUse(log, ended) ==
  /\ \A i \in DOMAIN log : (log[i][1] = "connect") <=> (i = 1)
  /\ \A i \in DOMAIN log : log[i][1] \in UseCommands => Connected(log)
  /\ \A i \in DOMAIN log : log[i][1] \in UseCommands \cup {"connect", "disconnect"}
  /\ Disconnects(log) \subseteq {Len(log)}
  /\ Disconnects(log) # {} => Connected(log)
  /\ (ended /\ Connected(log)) => Disconnects(log) = {Len(log)}

\* GenerateEventMapTable has ended: PopulateCoilMap went through on its
\* connection, then a query of the event map failed, the delete and the insert
\* were still issued, and both connections were closed
C18_QueryFailedAfterConnect ==
  /\ pc = "end"
  /\ Connected(eventLog) /\ Connected(coilLog)
  /\ \E i \in DOMAIN eventLog : eventLog[i] = << "query", 0, 0 >>
  /\ \E i \in DOMAIN eventLog : eventLog[i][1] = "insert"
  /\ Disconnects(eventLog) # {} /\ Disconnects(coilLog) # {}

\* C18: in PopulateCoilMap, GeneratePositionTables and GenerateEventMapTable
\* no query, fetch, delete or insert is issued on the object's connection
\* unless its connect succeeded, and a disconnect is attempted exactly once,
\* after every other command, exactly when the connect succeeded, whichever
\* command in between failed.
C18_ScopedConnectionUse ==
  /\ ScopedUse(coilLog, TRUE)
  /\ ScopedUse(eventLog, TRUE)
  /\ ScopedUse(dbLog, pc \in {"return", "done", "end"})

\* the twelve column positions of a record all hold the value v
ColumnsAre(r, v) == \A i \in 0..(COLUMN_COUNT - 1) : r.colPos[i] = v

\* the keys of the two lead records of the start of the coil, which
\* MapCoilStartScsPositions populates on the record that held its seed
LeadKeys == {RoundToLong(SOC_INIT_RETR_ANGLE), RoundToLong(SOC_INIT_ADV_ANGLE)}

\* a pass has ended and left full-axis records, the two lead records and the
\* single-axis records of the column loop in the map
C19_FullAndSingleAxisRecords ==
  /\ pc = "connect"
  /\ \E k \in DOMAIN scsAxisPositionMap : ~scsAxisPositionMap[k].selectedAxes[0]
  /\ LeadKeys \subseteq DOMAIN scsAxisPositionMap
  /\ \A k \in LeadKeys : scsAxisPositionMap[k].selectedAxes[0]
  /\ \E k \in DOMAIN scsAxisPositionMap \ LeadKeys : scsAxisPositionMap[k].selectedAxes[0]

\* every record of the map, full-axis or single-axis, has its twelve column
\* positions at POSITION_NOT_CALCULATED
C19_ColumnsAllNotCalculated ==
  \A k \in DOMAIN scsAxisPositionMap :
    ColumnsAre(scsAxisPositionMap[k], POSITION_NOT_CALCULATED)

\* C19: no record of the map holds a computed column position: the twelve
\* column positions are POSITION_NOT_CALCULATED in a full-axis record and in
\* the two lead records of the start of the coil, and INITIAL_NO_POSITION,
\* the value the record was constructed with, in every other single-axis
\* record, since a single-axis populate leaves the column positions alone.
C19_ColumnSentinelByKind ==
  \A k \in DOMAIN scsAxisPositionMap :
    ColumnsAre(scsAxisPositionMap[k],
               IF scsAxisPositionMap[k].selectedAxes[0] /\ k \notin LeadKeys
               THEN INITIAL_NO_POSITION ELSE POSITION_NOT_CALCULATED)

\* what the trace of a foot-move record says of the call that populated it:
\* the layer parity of the iteration and the foot the move summary names
TraceHas(r, text) == \E i \in DOMAIN r.trace : r.trace[i][1] = text

\* the role and the layer parity of the populate behind a single-axis record:
\* the two lead records are populated for the odd first layer, the retreating
\* foot first; a record of the column loop says both in its trace
PopulatedAdvancing(k, r) ==
  IF k \in LeadKeys THEN k = RoundToLong(SOC_INIT_ADV_ANGLE)
  ELSE TraceHas(r, "*MS: Adv Ft To Trn: ")

PopulatedEven(k, r) ==
  IF k \in LeadKeys THEN FALSE ELSE TraceHas(r, "Even Layer(), ")

\* the foot axis of a single-axis populate: the inner foot of the column for
\* the advancing foot of an even layer and the retreating foot of an odd one
FootAxis(column, isEven, advancing) ==
  IF (isEven /\ advancing) \/ (~isEven /\ ~advancing)
  THEN (column * 2) + 1 ELSE (column * 2) + 2

SelectedSet(r) == {axi \in 1..(COLUMN_COUNT * 2) : r.selectedAxes[axi]}

SingleAxisKeys == {k \in DOMAIN scsAxisPositionMap : scsAxisPositionMap[k].selectedAxes[0]}

\* a pass has ended; the scratch record has served every column, and the map
\* holds single-axis records of inner and of outer feet, of advancing and of
\* retreating feet, on even and on odd layers, on all six columns
C20_EveryFootSelected ==
  /\ pc = "connect"
  /\ {scsAxisPositionMap[k].selIndex : k \in SingleAxisKeys} = 1..COLUMN_COUNT
  /\ \A even \in BOOLEAN, adv \in BOOLEAN :
       \E k \in SingleAxisKeys \ LeadKeys :
         /\ PopulatedEven(k, scsAxisPositionMap[k]) = even
         /\ PopulatedAdvancing(k, scsAxisPositionMap[k]) = adv

\* C20: every record of the map whose selection flag (element 0) is set has
\* exactly one of the elements 1..24 set; it is a foot of the column of the
\* record's coil angle, the inner foot 2c+1 for the advancing foot of an even
\* layer and the retreating foot of an odd layer, the outer foot 2c+2
\* otherwise; and it is the axis index the record stores.
C20_ExactlyOneSelectedAxis ==
  \A k \in SingleAxisKeys :
    LET r == scsAxisPositionMap[k]
        c == ColumnOfAzimuth(AzimuthOf(r.coilAngle))
    IN  /\ c \in 0..5
        /\ SelectedSet(r) = {r.selIndex}
        /\ r.selIndex = FootAxis(c, PopulatedEven(k, r), PopulatedAdvancing(k, r))

\* the last column angle of the pass: the greatest of 30, 90, 150, ... that
\* is not beyond the coil's maximum angle
LastColumnAngle == 30 + (60 * ((COIL_ANGLE_MAX - 30) \div 60))

\* the pass has ended on a loaded coil map; its last iteration worked on the
\* last column angle
C21_PassRanToLastColumn ==
  /\ pc = "connect"
  /\ mapCoil # <<>>
  /\ passes = 1
  /\ joggleCall.angle = Deg(LastColumnAngle)
  /\ currentAngle = LastColumnAngle + 60

\* C21: CalculateAxisMoves works on the angles 30, 90, 150, ... in increasing
\* order, one per iteration, each iteration on the angle 60 after that of the
\* one before; it goes on while the angle is not beyond the coil's maximum
\* angle, whatever the coil map holds and whatever the iteration computed,
\* and then stops: the pass ends, after the iteration of the last column
\* angle.
C21_PassVisitsColumnsInOrder ==
  /\ [](pc = "loop" =>
          /\ currentAngle % 60 = 30
          /\ 30 <= currentAngle /\ currentAngle <= LastColumnAngle)
  /\ [][pc = "loop" =>
          /\ joggleCall'.angle = Deg(currentAngle)
          /\ currentAngle' = currentAngle + 60
          /\ pc' = IF currentAngle = LastColumnAngle THEN "connect" ELSE "loop"]_vars
  /\ [][pc' = "loop" /\ pc # "loop" => currentAngle' = 30]_vars
  /\ <>(pc = "connect" /\ currentAngle = LastColumnAngle + 60)

HelpFlags == {"-h", "-H", "-?", "-help", "-Help"}

TableFlags == {"-p", "-P", "-e", "-E"}

\* no object has done anything: no coil map loaded, no pass, no command sent
NothingGenerated ==
  /\ mapCoil = <<>> /\ coilStatus = 0 /\ passes = 0 /\ scsAxisPositionMap = <<>>
  /\ dbLog = <<>> /\ coilLog = <<>> /\ eventLog = <<>>
  /\ genStatus = 0 /\ eventStatus = 0

\* main looks at the arguments
InArguments == pc \in {"argc", "args"}

\* the steps of the position tables: the load, the pass, the write
InPositions == pc \in {"main", "calc", "loop", "connect", "delete", "insert", "cls", "disconnect", "return"}

\* both tables were selected, both have been generated, and main has
\* returned 0
C22_BothTablesThenExit ==
  /\ pc = "exit"
  /\ exitCode = 0
  /\ runPos /\ runEvents
  /\ genStatus # 0 /\ dbLog # <<>>
  /\ eventStatus # 0 /\ eventLog # <<>>

\* C22: with no argument main returns 1; looking at the arguments in order,
\* it returns 0 at the first help flag and 1 at the first argument it does
\* not know, whichever comes first, and nothing has been generated then;
\* otherwise it notes the tables selected, generates them and returns 0; and
\* when both tables are selected, in either order, the event table is
\* generated only once the position tables have been generated (coil map
\* load, pass and write), and no step of the position tables follows it.
C22_CommandLine ==
  /\ [](InArguments => NothingGenerated /\ exitCode = NotExited)
  /\ [](pc = "exit" => exitCode \in {0, 1})
  /\ [](exitCode = 1 => NothingGenerated)
  /\ [](pc = "exit" /\ exitCode = 0 /\ ~NothingGenerated =>
          /\ args = <<>>
          /\ runPos \/ runEvents
          /\ runPos <=> genStatus # 0
          /\ runEvents <=> eventStatus # 0)
  /\ [][pc = "argc" => IF args = <<>>
                       THEN pc' = "exit" /\ exitCode' = 1
                       ELSE pc' = "args" /\ UNCHANGED <<args, runPos, runEvents, exitCode>>]_vars
  /\ [][pc = "args" =>
          IF Head(args) \in HelpFlags THEN pc' = "exit" /\ exitCode' = 0
          ELSE IF Head(args) \notin TableFlags THEN pc' = "exit" /\ exitCode' = 1
          ELSE /\ args' = Tail(args)
               /\ pc' = IF Tail(args) = <<>> THEN "main" ELSE "args"
               /\ runPos' = (runPos \/ Head(args) \in {"-p", "-P"})
               /\ runEvents' = (runEvents \/ Head(args) \in {"-e", "-E"})
               /\ exitCode' = NotExited]_vars
  /\ [][pc = "exit" => FALSE]_vars
  /\ [][pc' = "exit" /\ ~InArguments => exitCode' = 0]_vars
  /\ [][eventStatus' # eventStatus =>
          /\ runEvents
          /\ runPos => pc = "done" /\ genStatus # 0]_vars
  /\ [][InPositions /\ (runPos \/ pc # "main") =>
          runPos /\ eventStatus = 0 /\ eventLog = <<>>]_vars
  /\ [][~runPos => UNCHANGED <<mapCoil, coilStatus, passes, scsAxisPositionMap, dbLog, genStatus>>]_vars

\* the transitions of the coil map whose window no later row cuts short
WholeTransitions ==
  {i \in DOMAIN mapCoil : /\ mapCoil[i].fc = FC_TRANSITION
                          /\ LbIndex(mapCoil[i].angle) = i
                          /\ LbIndex(mapCoil[i].angle + TRANS_ARC_DEG) = i}

ColumnOfAngle(currentAng) == ((currentAng % 360) - INITIAL_COLUMN_ANGLE) \div COLUMN_INCREMENT

\* the pass is about to work on a column
AtColumn == pc = "loop" /\ currentAngle <= COIL_ANGLE_MAX

\* what the iteration at currentAngle starts from, its joggle classification
\* and its transition step
IterationOf(uninit) ==
  LET start == IterationStart(scsAxisPositionMap, arrAdjMark, currentAngle, tAccumAdj,
                              hqpNumberPrev, layerNumberPrev, uninit)
      j == CalculateJoggleAdjustmentType(Deg(currentAngle))
  IN  [start |-> start, j |-> j,
       ts |-> TransitionStep(currentAngle, j, start.marks, start.tAccumAdj, inTransition)]

\* the pass is about to leave a transition window at a column that is
\* marked, with part of the turn index accumulated
C24_LeavesWindowPartlyAccumulated ==
  /\ AtColumn
  /\ \E it \in {IterationOf(FALSE)} :
       /\ it.j.type = "JA_RET_NOM_ADV_NOM"
       /\ ~isInTransitionLb(Deg(currentAngle)).condition
       /\ it.start.marks[ColumnOfAngle(currentAngle)]
       /\ 0 < it.start.tAccumAdj /\ it.start.tAccumAdj < TURN_INDEX_NOMINAL
       /\ it.ts.tThisAdj = TURN_INDEX_NOMINAL - it.start.tAccumAdj

\* C24: in an iteration the joggle classification finds nominal, a column
\* inside a transition window is marked, its increment is
\* CalculateTransitionAdjustment of the angle less the amount accumulated, and
\* the amount accumulated becomes CalculateTransitionAdjustment of the angle;
\* a marked column outside every window gets TURN_INDEX_NOMINAL less the
\* amount accumulated, the amount becomes 0 and the mark is cleared; an
\* unmarked column outside every window gets 0, and the amount and the marks
\* stay as they are.
C24_TransitionStepRule ==
  AtColumn =>
    \A uninit \in BOOLEAN :
      \E it \in {IterationOf(uninit)} :
      \E column \in {ColumnOfAngle(currentAngle)} :
        LET total == CalculateTransitionAdjustment(Deg(currentAngle))
        IN
        it.j.type = "JA_RET_NOM_ADV_NOM" =>
          IF isInTransitionLb(Deg(currentAngle)).condition
          THEN /\ it.ts.marks[column]
               /\ it.ts.tThisAdj = total - it.start.tAccumAdj
               /\ it.ts.tAccumAdj = total
          ELSE IF it.start.marks[column]
          THEN /\ it.ts.tThisAdj = TURN_INDEX_NOMINAL - it.start.tAccumAdj
               /\ it.ts.tAccumAdj = 0
               /\ ~it.ts.marks[column]
          ELSE /\ it.ts.tThisAdj = 0
               /\ it.ts.tAccumAdj = it.start.tAccumAdj
               /\ it.ts.marks = it.start.marks

\* C25: the transition accumulation is kept column by column: the transition
\* step of a column leaves the marks of the other five columns as they are,
\* and the amount it takes as accumulated is what the steps of its own column
\* have accumulated - for a column that is not marked nothing, so that the
\* first increment of a column inside a window is the whole of
\* CalculateTransitionAdjustment and its increments up to its exit step add
\* up to TURN_INDEX_NOMINAL.
C25_AccumulationPerColumn ==
  AtColumn =>
    \A uninit \in BOOLEAN :
      \E it \in {IterationOf(uninit)} :
      \E column \in {ColumnOfAngle(currentAngle)} :
        it.j.type = "JA_RET_NOM_ADV_NOM" =>
          /\ \A other \in (0..5) \ {column} : it.ts.marks[other] = it.start.marks[other]
          /\ (~it.start.marks[column] /\ isInTransitionLb(Deg(currentAngle)).condition) =>
                it.ts.tThisAdj = CalculateTransitionAdjustment(Deg(currentAngle))

\* the pass is about to work on a column that a joggle region covers, inside
\* a transition window, with an amount accumulated and a column marked
C26_JoggleInsideMarkedWindow ==
  /\ AtColumn
  /\ \E it \in {IterationOf(FALSE)} :
       /\ it.j.type # "JA_RET_NOM_ADV_NOM"
       /\ isInTransitionLb(Deg(currentAngle)).condition
       /\ it.start.tAccumAdj > 0
       /\ it.start.marks # NoAdjMark
       /\ it.ts.marks = it.start.marks

\* C26: in an iteration whose joggle classification is not nominal the
\* transition path is not taken: the transition increment of the moves of the
\* angle is 0, and the accumulated transition adjustment, the six column
\* marks and the transition flag are after the classification step what they
\* were before it.
C26_JoggleDominatesTransition ==
  AtColumn =>
    \A uninit \in BOOLEAN :
      \E it \in {IterationOf(uninit)} :
        it.j.type # "JA_RET_NOM_ADV_NOM" =>
          /\ it.ts.isJoggleAdj
          /\ it.ts.tThisAdj = 0
          /\ it.ts.tAccumAdj = it.start.tAccumAdj
          /\ it.ts.marks = it.start.marks
          /\ it.ts.inTransition = inTransition
          /\ \A isLastTurn \in BOOLEAN :
               /\ AdvancingMove(it.j.type, isLastTurn, it.ts.tThisAdj).dist \in
                    {0, (-1) * TURN_INDEX_NOMINAL}
               /\ RetreatingMove(it.j.type, isLastTurn, it.ts.tThisAdj, it.j.jAdj).dist \in
                    {INITIAL_FULL_RETRACT_POS, TURN_INDEX_NOMINAL + it.j.jAdj}

\* the conditions of the three regions as CalculateJoggleAdjustmentType finds
\* them, from the distances of the call, and the guard it tests first
Region1Condition(call) ==
  /\ JOGGLE_RETRACT_ADJ_THRESHOLD >= call.out.degToNextJoggle
  /\ (JOGGLE_RETRACT_ADJ_THRESHOLD - GetJoggleLengthLb(GetJoggleUb(call.angle)))
        <= call.out.degToNextJoggle

Region2Condition(call) ==
  /\ JOGGLE_FULL_RETRACT_THRESHOLD >= call.out.degToPrevJoggle
  /\ (JOGGLE_FULL_RETRACT_THRESHOLD - GetJoggleLengthLb(GetJoggleLb(call.angle)))
        <= call.out.degToPrevJoggle

Region3Condition(call) ==
  /\ JOGGLE_ADV_TO_FIRST_THRESHOLD >= call.out.degToPrevJoggle
  /\ (JOGGLE_ADV_TO_FIRST_THRESHOLD - GetJoggleLengthLb(GetJoggleLb(call.angle)))
        <= call.out.degToPrevJoggle

FarFromBothJoggles(call) ==
  /\ JOGGLE_RETRACT_ADJ_THRESHOLD < call.out.degToNextJoggle
  /\ (JOGGLE_ADV_TO_FIRST_THRESHOLD - GetJoggleLengthLb(GetJoggleLb(call.angle)))
        > call.out.degToPrevJoggle

\* an angle a little less than a turn before its next joggle and 2 degrees
\* past its previous joggle has been classified
C27_Region1AndRegion2 ==
  /\ joggleCall # NoJoggleCall
  /\ Region1Condition(joggleCall)
  /\ Region2Condition(joggleCall)
  /\ joggleCall.out.type = "JA_RET_ADJ_ADV_NOM"

\* C27: CalculateJoggleAdjustmentType gives what testing region 1, then
\* region 2, then region 3, then nominal gives: an angle that meets the
\* condition of region 1 is classified region 1 whether or not it meets that
\* of region 2 or region 3, an angle that meets those of regions 2 and 3 is
\* classified region 2, and the guard tested first holds for no angle that
\* meets the condition of a region.
C27_RegionTestOrder ==
  joggleCall # NoJoggleCall =>
    /\ joggleCall.out.degToNextJoggle = GetJoggleUb(joggleCall.angle) - joggleCall.angle
    /\ joggleCall.out.degToPrevJoggle = GetJoggleLb(joggleCall.angle) - joggleCall.angle
    /\ << joggleCall.out.type, joggleCall.out.jAdj >> =
         IF Region1Condition(joggleCall) THEN << "JA_RET_ADJ_ADV_NOM", TURN_INDEX_NOMINAL \div 2 >>
         ELSE IF Region2Condition(joggleCall) THEN << "JA_RET_FULL_ADV_NOP", 0 >>
         ELSE IF Region3Condition(joggleCall) THEN << "JA_RET_NOM_ADV_NOM", 0 >>
         ELSE << "JA_RET_NOM_ADV_NOM", 0 >>
    /\ FarFromBothJoggles(joggleCall) =>
         /\ ~Region1Condition(joggleCall)
         /\ ~Region2Condition(joggleCall)
         /\ ~Region3Condition(joggleCall)

\* a note of a branch the code expects never to take is in the trace
HasLogicErrorNote(trace) ==
  \E n \in DOMAIN trace : trace[n][1] \in {"Logic error determining advancing foot move.",
                                          "Logic error determining retreating foot move."}

\* the pass has just worked on a column on the last turn of a layer that is
\* not the last of its pancake, inside a transition window and with no joggle
\* near; the advancing foot has moved to the full extend position, and the
\* accumulator and the marks are cleared
C28_LeavesLayerInsideWindow ==
  /\ pc = "loop"
  /\ joggleCall # NoJoggleCall
  /\ joggleCall.out.type = "JA_RET_NOM_ADV_NOM"
  /\ isInTransitionLb(joggleCall.angle).condition
  /\ \E k \in {AdvKey(currentAngle - COLUMN_INCREMENT)} :
       /\ k \in DOMAIN scsAxisPositionMap
       /\ scsAxisPositionMap[k].coilAngle = joggleCall.angle
       /\ scsAxisPositionMap[k].isLastTurn
       /\ scsAxisPositionMap[k].isInTransition
       /\ ~scsAxisPositionMap[k].absAdjust
       /\ scsAxisPositionMap[k].selDist = INITIAL_FULL_EXTEND_POS
  /\ tAccumAdj = 0
  /\ arrAdjMark = NoAdjMark

\* C28: an iteration that is not on the last layer of a pancake records the
\* advancing foot of its column: an adjustment of the previous position by
\* -(TURN_INDEX_NOMINAL + the transition increment) when the classification is
\* region 1, or nominal off the last turn; an adjustment by 0 when it is
\* region 2; a move to INITIAL_FULL_EXTEND_POS when it is nominal on the last
\* turn, and then the accumulated transition adjustment is 0 and no column is
\* marked after the iteration; the record never carries the logic error note.
C28_AdvancingFootDecision ==
  [][AtColumn /\ (mapCoil = <<>> \/ ~OnLastLayer(currentAngle, joggleCall'.out.type)) =>
       \E ts \in {IterationOf(FALSE).ts} :
       \E type \in {joggleCall'.out.type} :
         /\ AdvKey(currentAngle) \in DOMAIN scsAxisPositionMap'
         /\ \E r \in {scsAxisPositionMap'[AdvKey(currentAngle)]} :
              /\ r.coilAngle = Deg(currentAngle)
              /\ ~HasLogicErrorNote(r.trace)
              /\ IF type = "JA_RET_ADJ_ADV_NOM" \/ (type = "JA_RET_NOM_ADV_NOM" /\ ~r.isLastTurn)
                 THEN /\ r.absAdjust
                      /\ r.selDist = (-1) * (TURN_INDEX_NOMINAL + ts.tThisAdj)
                      /\ tAccumAdj' = ts.tAccumAdj /\ arrAdjMark' = ts.marks
                 ELSE IF type = "JA_RET_FULL_ADV_NOP"
                 THEN /\ r.absAdjust
                      /\ r.selDist = 0
                      /\ tAccumAdj' = ts.tAccumAdj /\ arrAdjMark' = ts.marks
                 ELSE /\ type = "JA_RET_NOM_ADV_NOM" /\ r.isLastTurn
                      /\ ~r.absAdjust
                      /\ r.selDist = INITIAL_FULL_EXTEND_POS
                      /\ tAccumAdj' = 0 /\ arrAdjMark' = NoAdjMark]_vars

\* the pass has just worked on a column a little less than a turn before a
\* joggle: the retreating foot has been adjusted by the nominal index and the
\* joggle adjustment
C29_RetreatsBeforeJoggle ==
  /\ pc = "loop"
  /\ joggleCall # NoJoggleCall
  /\ joggleCall.out.type = "JA_RET_ADJ_ADV_NOM"
  /\ joggleCall.out.jAdj > 0
  /\ \E k \in {RetKey(currentAngle - COLUMN_INCREMENT)} :
       /\ k \in DOMAIN scsAxisPositionMap
       /\ scsAxisPositionMap[k].coilAngle = joggleCall.angle
       /\ scsAxisPositionMap[k].absAdjust
       /\ scsAxisPositionMap[k].selDist = TURN_INDEX_NOMINAL + joggleCall.out.jAdj

\* C29: every iteration records the retreating foot of its column: an
\* adjustment of the previous position by TURN_INDEX_NOMINAL + the transition
\* increment + the joggle adjustment when the classification is region 1; a
\* move to INITIAL_FULL_RETRACT_POS when it is region 2, or nominal on the
\* last turn; an adjustment by TURN_INDEX_NOMINAL + the transition increment
\* when it is nominal off the last turn; the record never carries the logic
\* error note.
C29_RetreatingFootDecision ==
  [][AtColumn =>
       \E ts \in {IterationOf(FALSE).ts} :
       \E j \in {joggleCall'.out} :
         /\ RetKey(currentAngle) \in DOMAIN scsAxisPositionMap'
         /\ \E r \in {scsAxisPositionMap'[RetKey(currentAngle)]} :
              /\ r.coilAngle = Deg(currentAngle)
              /\ ~HasLogicErrorNote(r.trace)
              /\ IF j.type = "JA_RET_ADJ_ADV_NOM"
                 THEN /\ r.absAdjust
                      /\ r.selDist = TURN_INDEX_NOMINAL + ts.tThisAdj + j.jAdj
                 ELSE IF j.type = "JA_RET_FULL_ADV_NOP"
                         \/ (j.type = "JA_RET_NOM_ADV_NOM" /\ r.isLastTurn)
                 THEN /\ ~r.absAdjust
                      /\ r.selDist = INITIAL_FULL_RETRACT_POS
                 ELSE /\ j.type = "JA_RET_NOM_ADV_NOM" /\ ~r.isLastTurn
                      /\ r.absAdjust
                      /\ r.selDist = TURN_INDEX_NOMINAL + ts.tThisAdj]_vars

\* the next joggle exists and its window ends before the next column
JoggleEndsBeforeNextColumn(a) ==
  /\ JogglesAhead(a) # {}
  /\ MinOf(JogglesAhead(a)) + WindowOf(MinOf(JogglesAhead(a))) < a + Deg(60)

\* the previous joggle exists and its window reaches the angle
InWindowOfPreviousJoggle(a) ==
  /\ JogglesBehind(a) # {}
  /\ MaxOf(JogglesBehind(a)) + WindowOf(MaxOf(JogglesBehind(a))) >= a

\* the angle of a joggle has been probed: the joggle is its next and its
\* previous joggle, and both conditions hold
C30_AngleOfJoggle ==
  /\ joggleCall # NoJoggleCall
  /\ joggleCall.angle \in setJoggleAngles
  /\ JoggleEndsBeforeNextColumn(joggleCall.angle)
  /\ InWindowOfPreviousJoggle(joggleCall.angle)
  /\ isLastMoveOfLayer(joggleCall.angle) =
       [stat |-> TRUE, condition |-> TRUE, joggleAngle |-> joggleCall.angle,
        isInJoggleWindow |-> FALSE]

\* C30: isLastMoveOfLayer always returns success; it reports the condition
\* with the next joggle and isInJoggleWindow false when the next joggle exists
\* and its window ends before the column after the angle, also when the second
\* condition holds too; otherwise with the previous joggle and
\* isInJoggleWindow true when the previous joggle exists and its window
\* reaches the angle; otherwise it reports no condition.
C30_LastMoveOfLayer ==
  (joggleCall # NoJoggleCall \/ AtColumn) =>
    \A a \in {joggleCall.angle, Deg(currentAngle)} :
      \E last \in {isLastMoveOfLayer(a)} :
        /\ last.stat
        /\ IF JoggleEndsBeforeNextColumn(a)
           THEN /\ last.condition
                /\ ~last.isInJoggleWindow
                /\ last.joggleAngle = MinOf(JogglesAhead(a))
           ELSE IF InWindowOfPreviousJoggle(a)
           THEN /\ last.condition
                /\ last.isInJoggleWindow
                /\ last.joggleAngle = MaxOf(JogglesBehind(a))
           ELSE ~last.condition

\* the column angles 30, 90, 150, ... of a pass
PassColumns == {30 + (60 * k) : k \in 0..((COIL_ANGLE_MAX - 30) \div 60)}

\* the column angles at which the lookahead reports the condition because of
\* the joggle
ColumnsOfJoggle(joggle) ==
  {a \in PassColumns : \E last \in {isLastMoveOfLayer(Deg(a))} :
                         last.condition /\ last.joggleAngle = joggle}

\* what the lookahead of the iteration about to run seeds
SeedOfIteration(uninit) ==
  LayerBoundary(scsAxisPositionMap, currentAngle, hqpNumberPrev, layerNumberPrev, uninit).seed

\* the pass is at the column of a joggle inside that joggle's window, after
\* it has seeded an earlier layer
C31_ColumnOfJoggleInWindow ==
  /\ AtColumn
  /\ currentAngle # INITIAL_COLUMN_ANGLE
  /\ \E j \in setJoggleAngles : j < Deg(currentAngle) /\ currentAngle \in ColumnsOfJoggle(j)
  /\ NewLayerKeys(scsAxisPositionMap) # {}
  /\ SeedOfIteration(FALSE) = "layer"

\* C31: every joggle of the coil makes isLastMoveOfLayer report the condition
\* at exactly one column angle of 30, 90, 150, ..., which is not the first; an
\* iteration after the first seeds a layer or a pancake exactly when its column
\* angle is the column angle of a joggle.
C31_EachJoggleOnce ==
  /\ (pc = "loop" /\ currentAngle = INITIAL_COLUMN_ANGLE) =>
       \A j \in setJoggleAngles :
         /\ Cardinality(ColumnsOfJoggle(j)) = 1
         /\ INITIAL_COLUMN_ANGLE \notin ColumnsOfJoggle(j)
  /\ (AtColumn /\ currentAngle # INITIAL_COLUMN_ANGLE) =>
       \A uninit \in BOOLEAN :
         (SeedOfIteration(uninit) \in {"hqp", "layer"}) <=>
           (\E j \in setJoggleAngles :
              \E last \in {isLastMoveOfLayer(Deg(currentAngle))} :
                last.condition /\ last.joggleAngle = j)

\* the seed records of a map
SeedKeys(map) == NewHqpKeys(map) \cup NewLayerKeys(map)

\* C32: a seed record the pass has inserted, in an earlier iteration or at the
\* start of the iteration that runs, is in the map under its key and
\* unchanged when the iteration ends.
C32_SeedRowsSurvive ==
  [][AtColumn =>
       \E uninit \in BOOLEAN :
         \E start \in { IterationStart(scsAxisPositionMap, arrAdjMark, currentAngle,
                                       tAccumAdj, hqpNumberPrev, layerNumberPrev, uninit) } :
           \A k \in SeedKeys(start.map) :
             /\ k \in DOMAIN scsAxisPositionMap'
             /\ scsAxisPositionMap'[k] = start.map[k]]_vars

\* the keys of the map strictly between two keys
KeysBetween(map, a, b) == {k \in DOMAIN map : a < k /\ k < b}

\* the pass has gone two columns past a column that seeded a new layer
C33_SeedBetweenAdvanceAndRetract ==
  /\ AtColumn
  /\ \E k \in NewLayerKeys(scsAxisPositionMap) :
       /\ k + 45 + (2 * COLUMN_INCREMENT) = currentAngle
       /\ PopulatedAdvancing(k - 5, scsAxisPositionMap[k - 5])
       /\ ~PopulatedAdvancing(k + 5, scsAxisPositionMap[k + 5])

\* C33: the new-layer seed an iteration at column angle A inserts is keyed at
\* A - 50 + 5, after the key A - 50 of the column's advancing foot and before
\* the key A - 40 of the next column's retreating foot; once the next column
\* has been worked the map holds the advancing-foot record at A - 50 (none
\* when the column works on a layer whose advancing foot stays parked), the
\* seed at A - 45, the retreating-foot record at A - 40 and nothing between
\* them.
C33_NewLayerSeedPlacement ==
  /\ [][AtColumn =>
          \A k \in NewLayerKeys(scsAxisPositionMap') \ NewLayerKeys(scsAxisPositionMap) :
            /\ k = (currentAngle - 50) + 5
            /\ AdvKey(currentAngle) < k
            /\ k < RetKey(currentAngle + COLUMN_INCREMENT)]_vars
  /\ [][(AtColumn /\ currentAngle # INITIAL_COLUMN_ANGLE /\ SeedOfIteration(FALSE) = "layer") =>
          ((currentAngle - 50) + 5) \in
            (NewLayerKeys(scsAxisPositionMap') \ NewLayerKeys(scsAxisPositionMap))]_vars
  /\ [](pc = "loop" =>
          \A k \in NewLayerKeys(scsAxisPositionMap) :
            (k + 45 + COLUMN_INCREMENT < currentAngle) =>
              /\ (k - 5) \in DOMAIN scsAxisPositionMap =>
                    /\ (k - 5) \in FootMoveKeys(scsAxisPositionMap)
                    /\ PopulatedAdvancing(k - 5, scsAxisPositionMap[k - 5])
              /\ (k - 5) \notin DOMAIN scsAxisPositionMap =>
                    OnLastLayer(k + 45, CalculateJoggleAdjustmentType(Deg(k + 45)).type)
              /\ (k + 5) \in FootMoveKeys(scsAxisPositionMap)
              /\ ~PopulatedAdvancing(k + 5, scsAxisPositionMap[k + 5])
              /\ KeysBetween(scsAxisPositionMap, k - 5, k + 5) = {k})

\* the full-axis absolute seed records of the map
FullAxisSeedKeys ==
  {k \in SeedKeys(scsAxisPositionMap) :
     scsAxisPositionMap[k].isAbsolute /\ ~scsAxisPositionMap[k].selectedAxes[0]}

\* the layer a seed record starts is even: a new-HQP record starts an odd
\* layer, a new-layer record says which in its trace
SeedIsEven(r) ==
  \/ TraceHas(r, "New Even Layer Start Positions. Column Angle: ")
  \/ TraceHas(r, "New Even Layer Start Positions (column in joggle window). Column Angle: ")

\* the column of the coil angle of a record
ColumnOfRecord(r) ==
  (((TruncToLong(r.coilAngle) + 360) % 360) - INITIAL_COLUMN_ANGLE) \div COLUMN_INCREMENT

\* foot i of the vector is a retreating foot: the inner feet (even i) on an odd
\* layer, the outer feet on an even one
IsRetreatingFoot(i, isEven) == (i % 2 = 0) <=> ~isEven

\* the position a seed record gives foot i
SeedFootPos(r, i) ==
  LET retreating == IsRetreatingFoot(i, SeedIsEven(r))
      start == IF retreating THEN RETREATING_FOOT_START_POS ELSE ADVANCING_FOOT_START_POS
  IN  IF ~r.isInJoggle \/ (i \div 2) # ColumnOfRecord(r) THEN start
      ELSE IF retreating THEN start + TURN_INDEX_NOMINAL
      ELSE IF r.isLastLayer THEN start
      ELSE start - TURN_INDEX_NOMINAL

\* the map holds a seed made inside a joggle window for a last layer, one made
\* inside a joggle window for another layer, and one made outside
C34_SeedsInAndOutOfJoggleWindow ==
  /\ \E k \in FullAxisSeedKeys :
       scsAxisPositionMap[k].isInJoggle /\ scsAxisPositionMap[k].isLastLayer
  /\ \E k \in FullAxisSeedKeys :
       /\ scsAxisPositionMap[k].isInJoggle /\ ~scsAxisPositionMap[k].isLastLayer
       /\ ~SeedIsEven(scsAxisPositionMap[k])
  /\ \E k \in FullAxisSeedKeys : ~scsAxisPositionMap[k].isInJoggle

\* C34: in a full-axis absolute seed record made outside a joggle window the six
\* inner feet hold position 1 and the six outer feet position 2, the start
\* positions of the retreating and the advancing feet of the layer; in one made
\* inside a joggle window only the two feet of the coil angle's column differ:
\* the retreating foot is one TURN_INDEX_NOMINAL further retracted, and the
\* advancing foot one TURN_INDEX_NOMINAL further advanced unless isLastLayer is
\* set, when it keeps its start position.
C34_SeedFootPositions ==
  \A k \in FullAxisSeedKeys :
    /\ \A i \in 0..(COLUMN_COUNT - 1) :
         scsAxisPositionMap[k].footPos[i] = SeedFootPos(scsAxisPositionMap[k], i)
    /\ ~scsAxisPositionMap[k].isInJoggle =>
         \E pos1, pos2 \in {RETREATING_FOOT_START_POS, ADVANCING_FOOT_START_POS} :
           \A i \in 0..(COLUMN_COUNT - 1) :
             scsAxisPositionMap[k].footPos[i] = IF i % 2 = 0 THEN pos1 ELSE pos2

\* the turns and the layer flags of the iteration at a column angle
TurnsOfColumn(angle) ==
  ColumnTurns(angle, WorkingLayer(angle, CalculateJoggleAdjustmentType(Deg(angle)).type).layerNumber)

IsNominal(angle) == CalculateJoggleAdjustmentType(Deg(angle)).type = "JA_RET_NOM_ADV_NOM"

\* the iteration at the column angle leaves its layer: it is on the last turn
\* and is classified nominal or is on a last layer
LeavesLayer(angle) ==
  /\ TurnsOfColumn(angle).isLastTurn
  /\ IsNominal(angle) \/ TurnsOfColumn(angle).isLastLayer

\* the iteration about to run is the first one classified nominal at or after
\* a joggle
FirstNominalAfterJoggle ==
  /\ AtColumn
  /\ currentAngle # INITIAL_COLUMN_ANGLE
  /\ IsNominal(currentAngle)
  /\ \E j \in setJoggleAngles :
       /\ j <= Deg(currentAngle)
       /\ Deg(currentAngle) - Deg(2 * COLUMN_INCREMENT) < j
       /\ j <= Deg(currentAngle - COLUMN_INCREMENT) => ~IsNominal(currentAngle - COLUMN_INCREMENT)

\* the iteration that has just run was inside a transition window on the last
\* turn of its layer, and has left neither a mark nor an accumulated
\* adjustment
C35_ClearedInsideWindow ==
  /\ pc = "loop"
  /\ currentAngle > INITIAL_COLUMN_ANGLE
  /\ joggleCall.angle = Deg(currentAngle - COLUMN_INCREMENT)
  /\ IsNominal(currentAngle - COLUMN_INCREMENT)
  /\ LeavesLayer(currentAngle - COLUMN_INCREMENT)
  /\ ~TurnsOfColumn(currentAngle - COLUMN_INCREMENT).isLastLayer
  /\ isInTransitionLb(Deg(currentAngle - COLUMN_INCREMENT)).condition
  /\ tAccumAdj = 0
  /\ arrAdjMark = NoAdjMark

\* C35: an iteration on the last turn of its layer that is classified nominal
\* or is on a last layer ends with the accumulated transition adjustment 0 and
\* the six column marks cleared; the first iteration classified nominal after
\* a joggle starts with no column marked and nothing accumulated.
C35_TransitionStateEndsWithLayer ==
  /\ [][(AtColumn /\ LeavesLayer(currentAngle)) =>
          (tAccumAdj' = 0 /\ arrAdjMark' = NoAdjMark)]_vars
  /\ [](FirstNominalAfterJoggle => (tAccumAdj = 0 /\ arrAdjMark = NoAdjMark))

\* the foot-move records the iteration at currentAngle has put into the map
FootMovesOfIteration(after) ==
  {after[k] : k \in {AdvKey(currentAngle), RetKey(currentAngle)} \cap FootMoveKeys(after)}

\* C36: the foot-move records of an iteration whose joggle classification is
\* not nominal have isInTransition false, and those of any iteration have
\* isInTransition true only if the angle is inside a transition window or the
\* column is marked as having been in one when the iteration starts.
C36_InTransitionOfCurrentAngle ==
  [][(AtColumn /\ mapCoil # <<>>) =>
       \A r \in FootMovesOfIteration(scsAxisPositionMap') :
         /\ ~IsNominal(currentAngle) => ~r.isInTransition
         /\ r.isInTransition =>
              \/ isInTransitionLb(Deg(currentAngle)).condition
              \/ isTransAdjustSet(arrAdjMark, Deg(currentAngle))]_vars

\* the three flags PopScsPosDetail encodes the insert mode in: the selection
\* flag, isAbsolute and the adjustment-of-previous flag
ModeTriple(r) == << r.selectedAxes[0], r.isAbsolute, r.absAdjust >>

\* the triple of each of the five insert modes
TripleOfMode(mode) ==
  << mode \in {"IM_REL_SEL", "IM_ABS_SEL", "IM_ABS_UPDATE_SEL"},
     mode \in {"IM_ABS_SEL", "IM_ABS_UPDATE_SEL", "IM_ABS_ALL"},
     mode = "IM_ABS_UPDATE_SEL" >>

\* the stored procedure and the isAbsolute parameter that go with a triple
ProcedureOfTriple(t) ==
  IF t[1] /\ t[3] THEN << "SPNAME_INSERT_SEL_ADJ_ABS_SCS_POS", FALSE >>
  ELSE IF t[1] THEN << "SPNAME_INSERT_SEL_SCS_POS", t[2] >>
  ELSE << "SPNAME_INSERT_ALL_SCS_POS", t[2] >>

\* the scratch record populated with a mode for column A
PopulatedWith(mode) ==
  PopScsPosDetail(Deg(A_COLUMN_AZIMUTH), FALSE, "FOOT_ROLE_ADVANCING", mode,
                  TURN_INDEX_NOMINAL, 0, <<>>, FALSE, FALSE, FALSE, FALSE, FALSE, FALSE,
                  0, 0, scsPosDetail).posDetail

\* an absolute single-axis populate has reused the scratch record that an
\* adjustment of the previous position had left in the map
C37_AbsoluteAfterAdjustment ==
  /\ popCall.mode = "IM_ABS_SEL"
  /\ popCall.status = RTN_NO_ERROR
  /\ ModeTriple(scsPosDetail) = << TRUE, TRUE, FALSE >>
  /\ \E k \in DOMAIN scsAxisPositionMap :
       ModeTriple(scsAxisPositionMap[k]) = << TRUE, TRUE, TRUE >>

\* C37: a successful populate with one of the five insert modes leaves the
\* triple of that mode in the record, whatever the record held before; the
\* five triples differ; and the row sent for a record names the stored
\* procedure by the triple alone: insert-from-previous for selection with
\* adjustment, insert-selected with isAbsolute for selection without, and
\* insert-all with isAbsolute for no selection.
C37_InsertModeEncoding ==
  /\ [](\A m1, m2 \in RecognisedModes :
          /\ ModeTriple(PopulatedWith(m1)) = TripleOfMode(m1)
          /\ (ModeTriple(PopulatedWith(m1)) = ModeTriple(PopulatedWith(m2))) => (m1 = m2)
          /\ \E row \in {ScsRow(0, PopulatedWith(m1))} :
               << row.proc, row.isAbsolute >> = ProcedureOfTriple(TripleOfMode(m1)))
  /\ [][(/\ popCall'.status = RTN_NO_ERROR
         /\ popCall'.mode \in RecognisedModes
         /\ scsPosDetail' # scsPosDetail) =>
          ModeTriple(scsPosDetail') = TripleOfMode(popCall'.mode)]_vars
  /\ [](\A k \in DOMAIN scsAxisPositionMap :
          \E row \in {ScsRow(k, scsAxisPositionMap[k])} :
            << row.proc, row.isAbsolute >> = ProcedureOfTriple(ModeTriple(scsAxisPositionMap[k])))

\* the kinds of the eight steps of PopulateCoilMap, in order
LoadSteps == << "connect", "query", "fetch", "query", "fetch", "query", "fetch", "disconnect" >>

\* a log of PopulateCoilMap: the steps before the disconnect in order up to and
\* including the first that failed, then the disconnect when the connect
\* succeeded
LoadProtocol(log) ==
  \E n \in 1..7 :
    /\ Len(log) >= n
    /\ \A i \in 1..n : log[i][1] = LoadSteps[i] /\ (i < n => log[i][3] = 1)
    /\ n < 7 => log[n][3] = 0
    /\ IF log[1][3] = 1
       THEN Len(log) = n + 1 /\ log[n + 1][1] = "disconnect"
       ELSE Len(log) = n

\* all eight steps were executed and succeeded
LoadComplete(log) ==
  /\ Len(log) = 8
  /\ \A i \in 1..8 : log[i][1] = LoadSteps[i] /\ log[i][3] = 1

\* GenerateEventMapTable went on to its first query after the coil map load
WentOnAfterLoad(log) == Len(log) >= 2 /\ log[2][1] = "query"

\* the odd-layer-turn-14 query of a load failed: nothing but the disconnect
\* followed, and the caller did not go on
C38_SecondQueryFailed ==
  /\ pc = "end"
  /\ Len(coilLog) = 5
  /\ coilLog[4] = << "query", 0, 0 >>
  /\ coilLog[5][1] = "disconnect"
  /\ Connected(eventLog)
  /\ ~WentOnAfterLoad(eventLog)

\* C38: PopulateCoilMap runs connect, coil-map query, row mapping,
\* odd-layer-turn-14 query, its mapping, joggle-angle query, joggle-set
\* population and disconnect in that order; after the first of the first seven
\* that fails only the disconnect follows, and that only after a successful
\* connect; it returns RTN_NO_ERROR exactly when all eight succeeded, which
\* main sees in the status and GenerateEventMapTable in going on to its
\* queries.
C38_LoadProtocol ==
  /\ coilLog # <<>> => LoadProtocol(coilLog)
  /\ (runPos /\ pc # "main") => (coilStatus = RTN_NO_ERROR <=> LoadComplete(coilLog))
  /\ (runEvents /\ pc = "end" /\ Connected(eventLog)) =>
       (WentOnAfterLoad(eventLog) <=> LoadComplete(coilLog))

\* the query angles of an at-or-before lookup: just before the first row, on
\* every row, between every two rows and past the last row
LbQueryAngles ==
  {mapCoil[1].angle - 1, mapCoil[1].angle - Deg(COLUMN_INCREMENT),
   mapCoil[Len(mapCoil)].angle + 1}
    \cup {mapCoil[i].angle : i \in DOMAIN mapCoil}
    \cup UNION {Between(mapCoil[i].angle, mapCoil[i + 1].angle) : i \in 1..(Len(mapCoil) - 1)}

\* C39: on a loaded coil map an at-or-before lookup never gives a later row:
\* at a query angle before the first row every Lb getter gives its sentinel,
\* and at any other query angle the data of a row at or before the angle.
C39_NeverALaterRow ==
  mapCoil # <<>> =>
     \A q \in LbQueryAngles :
        IF q < mapCoil[1].angle
        THEN LbLookups(q) = NoRowData
        ELSE \E i \in DOMAIN mapCoil :
                mapCoil[i].angle <= q /\ LbLookups(q) = RowData(mapCoil[i])

\* the commands of GenerateEventMapTable up to the second start set, all of
\* them successful
StartSetSteps ==
  << << "connect", 0, 1 >>, << "query", 0, 1 >>, << "fetch", 0, 1 >>,
     << "query", 0, 1 >>, << "fetch", 0, 1 >> >>

StartSetsLoaded(log) ==
  Len(log) >= Len(StartSetSteps) /\ SubSeq(log, 1, Len(StartSetSteps)) = StartSetSteps

EventRowsTouched(log) == \E i \in DOMAIN log : log[i][1] \in {"delete", "insert"}

\* C40: GenerateEventMapTable deletes the undone events and inserts the new
\* event map only if the connect, the coil map load, both start angle queries
\* and both start sets succeeded; when one of them failed no event row is
\* deleted or inserted and the call returns RTN_ERROR.
C40_GatedOnCompleteLoad ==
  (runEvents /\ pc = "end") =>
     LET loaded == LoadComplete(coilLog) /\ StartSetsLoaded(eventLog)
     IN  /\ EventRowsTouched(eventLog) => loaded
         /\ ~loaded => eventStatus = RTN_ERROR

====
